---- MODULE Spec2Model ----
(***************************************************************************)
(* QRDM: a text document (plus optional JSON metadata) is serialized,      *)
(* compressed, fingerprinted, chunked, extended with Reed-Solomon parity   *)
(* chunks, framed and base-85 encoded into QR payloads (qr/encode.py), and *)
(* recovered from the QR payloads read back from the page images           *)
(* (qr/decode.py).                                                         *)
(*                                                                         *)
(* Bytes are naturals 0..255, byte strings are sequences of bytes.  A      *)
(* base-85 string is a sequence of digit values 0..84 (the position of the *)
(* character in the base-85 alphabet); 85 stands for any character that is *)
(* not in the alphabet.                                                    *)
(***************************************************************************)
EXTENDS Integers, Sequences, FiniteSets, TLC

(***************************************************************************)
(* Generic helpers on sequences                                            *)
(***************************************************************************)
Min(a, b) == IF a <= b THEN a ELSE b

Max(a, b) == IF a >= b THEN a ELSE b

CeilDiv(a, b) == (a + b - 1) \div b

Range(s) == {s[i] : i \in DOMAIN s}

\* a function with domain 1..n as an explicit tuple
Tup(f) == f \o <<>>

Zeros(n) == Tup([i \in 1..n |-> 0])

\* s[a..b] with 1-based inclusive bounds, clipped to the sequence
Slice(s, a, b) == SubSeq(s, Max(a, 1), Min(b, Len(s)))

RECURSIVE Concat(_)
Concat(ss) == IF ss = <<>> THEN <<>> ELSE Head(ss) \o Concat(Tail(ss))

RECURSIVE SumSeq(_)
SumSeq(s) == IF s = <<>> THEN 0 ELSE Head(s) + SumSeq(Tail(s))

\* zip(*rows): the columns of a list of rows, truncated to the shortest row
ZipRows(rows) ==
    IF rows = <<>> THEN <<>>
    ELSE LET n == CHOOSE m \in {Len(rows[i]) : i \in DOMAIN rows} :
                      \A i \in DOMAIN rows : m <= Len(rows[i])
         IN  Tup([c \in 1..n |-> Tup([r \in 1..Len(rows) |-> rows[r][c]])])

\* bytes.strip(b"\0"): leading and trailing 0x00 removed
RECURSIVE StripLeft(_)
StripLeft(b) == IF b # <<>> /\ Head(b) = 0 THEN StripLeft(Tail(b)) ELSE b

RECURSIVE StripRight(_)
StripRight(b) ==
    IF b # <<>> /\ b[Len(b)] = 0 THEN StripRight(SubSeq(b, 1, Len(b) - 1)) ELSE b

strip_nulls(b) == StripRight(StripLeft(b))

(***************************************************************************)
(* Unbounded naturals as <<hi, lo>> = hi * 2^16 + lo, for the QR counts    *)
(* that are compared with 2^32.                                            *)
(***************************************************************************)
BigBase == 2^16

Big(n) == <<n \div BigBase, n % BigBase>>

BigNorm(hi, lo) == <<hi + (lo \div BigBase), lo % BigBase>>

BigAdd(a, b) == BigNorm(a[1] + b[1], a[2] + b[2])

\* a * m for a small multiplier m
BigMulSmall(a, m) == BigNorm(a[1] * m, a[2] * m)

\* floor(a / d) for a small divisor d
BigDivSmall(a, d) ==
    <<a[1] \div d, (((a[1] % d) * BigBase) + a[2]) \div d>>

BigModSmall(a, d) == (((a[1] % d) * BigBase) + a[2]) % d

BigCeilDivSmall(a, d) ==
    IF BigModSmall(a, d) = 0 THEN BigDivSmall(a, d)
    ELSE BigAdd(BigDivSmall(a, d), Big(1))

BigGeq(a, b) == a[1] > b[1] \/ (a[1] = b[1] /\ a[2] >= b[2])

BigLess(a, b) == ~BigGeq(a, b)

BigIsSmall(a) == a[1] = 0

BigMin(a, b) == IF BigGeq(b, a) THEN a ELSE b

(***************************************************************************)
(* GF(2^8) arithmetic of the reedsolo codec (prim 0x11d, generator 2).     *)
(***************************************************************************)
RECURSIVE Xor(_, _)
Xor(a, b) ==
    IF a = 0 THEN b
    ELSE IF b = 0 THEN a
    ELSE ((a + b) % 2) + 2 * Xor(a \div 2, b \div 2)

\* gf_exp_table[i + 1] = 2^i in GF(2^8) modulo the primitive polynomial 0x11d
gf_exp_table ==
    <<1, 2, 4, 8, 16, 32, 64, 128, 29, 58, 116, 232, 205, 135, 19, 38, 76,
      152, 45, 90, 180, 117, 234, 201, 143, 3, 6, 12, 24, 48, 96, 192, 157,
      39, 78, 156, 37, 74, 148, 53, 106, 212, 181, 119, 238, 193, 159, 35,
      70, 140, 5, 10, 20, 40, 80, 160, 93, 186, 105, 210, 185, 111, 222, 161,
      95, 190, 97, 194, 153, 47, 94, 188, 101, 202, 137, 15, 30, 60, 120,
      240, 253, 231, 211, 187, 107, 214, 177, 127, 254, 225, 223, 163, 91,
      182, 113, 226, 217, 175, 67, 134, 17, 34, 68, 136, 13, 26, 52, 104,
      208, 189, 103, 206, 129, 31, 62, 124, 248, 237, 199, 147, 59, 118, 236,
      197, 151, 51, 102, 204, 133, 23, 46, 92, 184, 109, 218, 169, 79, 158,
      33, 66, 132, 21, 42, 84, 168, 77, 154, 41, 82, 164, 85, 170, 73, 146,
      57, 114, 228, 213, 183, 115, 230, 209, 191, 99, 198, 145, 63, 126, 252,
      229, 215, 179, 123, 246, 241, 255, 227, 219, 171, 75, 150, 49, 98, 196,
      149, 55, 110, 220, 165, 87, 174, 65, 130, 25, 50, 100, 200, 141, 7, 14,
      28, 56, 112, 224, 221, 167, 83, 166, 81, 162, 89, 178, 121, 242, 249,
      239, 195, 155, 43, 86, 172, 69, 138, 9, 18, 36, 72, 144, 61, 122, 244,
      245, 247, 243, 251, 235, 203, 139, 11, 22, 44, 88, 176, 125, 250, 233,
      207, 131, 27, 54, 108, 216, 173, 71, 142>>

\* gf_log_table[x] = i with 2^i = x, for x in 1..255
gf_log_table ==
    <<0, 1, 25, 2, 50, 26, 198, 3, 223, 51, 238, 27, 104, 199, 75, 4, 100,
      224, 14, 52, 141, 239, 129, 28, 193, 105, 248, 200, 8, 76, 113, 5, 138,
      101, 47, 225, 36, 15, 33, 53, 147, 142, 218, 240, 18, 130, 69, 29, 181,
      194, 125, 106, 39, 249, 185, 201, 154, 9, 120, 77, 228, 114, 166, 6,
      191, 139, 98, 102, 221, 48, 253, 226, 152, 37, 179, 16, 145, 34, 136,
      54, 208, 148, 206, 143, 150, 219, 189, 241, 210, 19, 92, 131, 56, 70,
      64, 30, 66, 182, 163, 195, 72, 126, 110, 107, 58, 40, 84, 250, 133,
      186, 61, 202, 94, 155, 159, 10, 21, 121, 43, 78, 212, 229, 172, 115,
      243, 167, 87, 7, 112, 192, 247, 140, 128, 99, 13, 103, 74, 222, 237,
      49, 197, 254, 24, 227, 165, 153, 119, 38, 184, 180, 124, 17, 68, 146,
      217, 35, 32, 137, 46, 55, 63, 209, 91, 149, 188, 207, 205, 144, 135,
      151, 178, 220, 252, 190, 97, 242, 86, 211, 171, 20, 42, 93, 158, 132,
      60, 57, 83, 71, 109, 65, 162, 31, 45, 67, 216, 183, 123, 164, 118, 196,
      23, 73, 236, 127, 12, 111, 246, 108, 161, 59, 82, 41, 157, 85, 170,
      251, 96, 134, 177, 187, 204, 62, 90, 203, 89, 95, 176, 156, 169, 160,
      81, 11, 245, 22, 235, 122, 117, 44, 215, 79, 174, 213, 233, 230, 231,
      173, 232, 116, 214, 244, 234, 168, 80, 88, 175>>

gf_exp(i) == gf_exp_table[(i % 255) + 1]

gf_mul(a, b) ==
    IF a = 0 \/ b = 0 THEN 0 ELSE gf_exp(gf_log_table[a] + gf_log_table[b])

gf_div(a, b) ==
    IF a = 0 THEN 0 ELSE gf_exp(gf_log_table[a] + 255 - gf_log_table[b])

gf_pow2(i) == gf_exp(i)

(***************************************************************************)
(* The Reed-Solomon codec the program uses (reedsolo.RSCodec(nsym), 1-byte *)
(* symbols, first consecutive root 0): systematic encoding by polynomial   *)
(* division, decoding with known erasure positions.  Messages longer than  *)
(* one codeword are processed codeword by codeword.                        *)
(***************************************************************************)
RS_NSIZE == 255

\* Horner evaluation, poly[1] is the highest-degree coefficient
RECURSIVE gf_poly_eval_from(_, _, _, _)
gf_poly_eval_from(poly, x, i, acc) ==
    IF i > Len(poly) THEN acc
    ELSE gf_poly_eval_from(poly, x, i + 1, Xor(gf_mul(acc, x), poly[i]))

gf_poly_eval(poly, x) == gf_poly_eval_from(poly, x, 1, 0)

\* multiply polynomial g by (x + r)
gf_poly_mul_root(g, r) ==
    Tup([i \in 1..(Len(g) + 1) |->
            Xor(IF i <= Len(g) THEN g[i] ELSE 0,
                IF i >= 2 THEN gf_mul(g[i - 1], r) ELSE 0)])

RECURSIVE rs_generator_poly(_)
rs_generator_poly(nsym) ==
    IF nsym = 0 THEN <<1>>
    ELSE gf_poly_mul_root(rs_generator_poly(nsym - 1), gf_pow2(nsym - 1))

\* synthetic division of msg * x^nsym by the generator; step i of the loop
RECURSIVE rs_divide(_, _, _, _)
rs_divide(out, gen, i, k) ==
    IF i > k THEN out
    ELSE LET coef == out[i]
         IN  rs_divide(
                 IF coef = 0 THEN out
                 ELSE Tup([j \in 1..Len(out) |->
                              IF j > i /\ j < i + Len(gen)
                              THEN Xor(out[j], gf_mul(gen[j - i + 1], coef))
                              ELSE out[j]]),
                 gen, i + 1, k)

\* one codeword: the message followed by its nsym parity symbols
rs_encode_msg(msg, nsym) ==
    LET rem == rs_divide(msg \o Zeros(nsym), rs_generator_poly(nsym), 1, Len(msg))
    IN  msg \o SubSeq(rem, Len(msg) + 1, Len(msg) + nsym)

\* RSCodec.encode: message chunks of (255 - nsym) symbols, each encoded
RECURSIVE RSCodec_encode(_, _)
RSCodec_encode(data, nsym) ==
    IF Len(data) = 0 THEN <<>>
    ELSE LET sz == RS_NSIZE - nsym
         IN  rs_encode_msg(Slice(data, 1, sz), nsym)
                 \o RSCodec_encode(Slice(data, sz + 1, Len(data)), nsym)

\* an RSCodec.encode that treats a message of any length as a single chunk
RSCodec_encode_kinds_unchunked(n, nsym) ==
    Tup([i \in 1..n |-> "data"]) \o Tup([i \in 1..nsym |-> "parity"])

\* which symbols of RSCodec.encode's output for a message of n symbols are
\* message symbols ("data") and which are parity symbols ("parity")
RECURSIVE RSCodec_encode_kinds(_, _)
RSCodec_encode_kinds(n, nsym) ==
    IF n = 0 THEN <<>>
    ELSE LET sz == Min(n, RS_NSIZE - nsym)
         IN  Tup([i \in 1..sz |-> "data"]) \o Tup([i \in 1..nsym |-> "parity"])
                 \o RSCodec_encode_kinds(n - sz, nsym)

rs_calc_syndromes(msg, nsym) ==
    Tup([j \in 1..nsym |-> gf_poly_eval(msg, gf_pow2(j - 1))])

RECURSIVE XorAll(_)
XorAll(s) == IF s = <<>> THEN 0 ELSE Xor(Head(s), XorAll(Tail(s)))

\* magnitudes Y of the erasures with locators X from syndromes S (Len(S) = Len(X)):
\* sum_k Y[k] * X[k]^j = S[j+1], j = 0..Len(X)-1
RECURSIVE rs_erasure_magnitudes(_, _)
rs_erasure_magnitudes(X, S) ==
    IF X = <<>> THEN <<>>
    ELSE LET x1 == X[1]
             S2 == Tup([j \in 1..(Len(X) - 1) |->
                          Xor(S[j + 1], gf_mul(x1, S[j]))])
             Z  == rs_erasure_magnitudes(Tail(X), S2)
             Yr == Tup([k \in 1..(Len(X) - 1) |->
                          gf_div(Z[k], Xor(X[k + 1], x1))])
         IN  <<Xor(S[1], XorAll(Yr))>> \o Yr

\* rs_correct_msg(msg, nsym, erase_pos=..., only_erasures=True); erase_pos is a
\* sequence of 0-based positions in msg
rs_correct_msg(msg_in, nsym, erase_pos) ==
    LET n == Len(msg_in)
        erased == Range(erase_pos)
        msg0 == Tup([i \in 1..n |->
                        IF (i - 1) \in erased THEN 0 ELSE msg_in[i]])
        synd == rs_calc_syndromes(msg0, nsym)
        ok(m) == [exc |-> "None", val |-> SubSeq(m, 1, n - nsym)]
    IN  IF Len(erase_pos) > nsym
        THEN [exc |-> "ReedSolomonError", val |-> <<>>]
        ELSE IF \A j \in 1..nsym : synd[j] = 0 THEN ok(msg0)
        ELSE LET e == Len(erase_pos)
                 X == Tup([k \in 1..e |-> gf_pow2(n - 1 - erase_pos[k])])
                 Y == rs_erasure_magnitudes(X, SubSeq(synd, 1, e))
                 fixed == Tup([i \in 1..n |->
                              IF \E k \in 1..e : erase_pos[k] = i - 1
                              THEN Y[CHOOSE k \in 1..e : erase_pos[k] = i - 1]
                              ELSE msg0[i]])
                 synd2 == rs_calc_syndromes(fixed, nsym)
             IN  IF \A j \in 1..nsym : synd2[j] = 0 THEN ok(fixed)
                 ELSE [exc |-> "ReedSolomonError", val |-> <<>>]

SelectLess(s, bound) == SelectSeq(s, LAMBDA x : x < bound)

ShiftGeq(s, bound) ==
    LET kept == SelectSeq(s, LAMBDA x : x >= bound)
    IN  Tup([i \in 1..Len(kept) |-> kept[i] - bound])

\* RSCodec.decode(data, erase_pos=..., only_erasures=True)[0]: codeword chunks of
\* 255 symbols, each corrected with the erasures that fall into it
RECURSIVE RSCodec_decode(_, _, _)
RSCodec_decode(data, nsym, erase_pos) ==
    IF Len(data) = 0 THEN [exc |-> "None", val |-> <<>>]
    ELSE LET first == rs_correct_msg(Slice(data, 1, RS_NSIZE), nsym,
                                     SelectLess(erase_pos, RS_NSIZE))
         IN  IF first.exc # "None" THEN first
             ELSE LET rest == RSCodec_decode(Slice(data, RS_NSIZE + 1, Len(data)),
                                             nsym, ShiftGeq(erase_pos, RS_NSIZE))
                  IN  IF rest.exc # "None" THEN rest
                      ELSE [exc |-> "None", val |-> first.val \o rest.val]

(***************************************************************************)
(* Exceptions: an operation that can raise returns [exc, val]; exc is      *)
(* "None" when it returned val, else the name of the exception raised.     *)
(***************************************************************************)
Ok(v) == [exc |-> "None", val |-> v]

Raise(e) == [exc |-> e, val |-> <<>>]

(***************************************************************************)
(* Text and JSON.  A text is a sequence of Unicode code points below       *)
(* U+0800; a JSON value is named by its JSON text, "None" is Python None.  *)
(***************************************************************************)
utf8_encode_char(cp) ==
    IF cp < 128 THEN <<cp>> ELSE <<192 + (cp \div 64), 128 + (cp % 64)>>

RECURSIVE utf8_encode(_)
utf8_encode(text) ==
    IF text = <<>> THEN <<>>
    ELSE utf8_encode_char(Head(text)) \o utf8_encode(Tail(text))

\* bytes.decode("utf-8"): strict, one- and two-byte sequences
RECURSIVE utf8_decode(_)
utf8_decode(b) ==
    IF b = <<>> THEN Ok(<<>>)
    ELSE IF b[1] < 128
         THEN LET r == utf8_decode(Tail(b))
              IN  IF r.exc # "None" THEN r ELSE Ok(<<b[1]>> \o r.val)
    ELSE IF b[1] >= 194 /\ b[1] < 224 /\ Len(b) >= 2 /\ b[2] >= 128 /\ b[2] < 192
         THEN LET r == utf8_decode(SubSeq(b, 3, Len(b)))
              IN  IF r.exc # "None" THEN r
                  ELSE Ok(<<(b[1] - 192) * 64 + (b[2] - 128)>> \o r.val)
    ELSE Raise("UnicodeDecodeError")

\* the JSON texts of the metadata values of the model, as ASCII bytes
JsonTexts ==
    [false |-> <<102, 97, 108, 115, 101>>,
     emptystring |-> <<34, 34>>,
     zero |-> <<48>>]

JsonValues == DOMAIN JsonTexts

json_dumps(v) == JsonTexts[v]

json_loads(b) ==
    IF \E v \in JsonValues : JsonTexts[v] = b
    THEN Ok(CHOOSE v \in JsonValues : JsonTexts[v] = b)
    ELSE Raise("JSONDecodeError")

(***************************************************************************)
(* Protocol-buffer wire format: single-byte tags, varints, length-         *)
(* delimited fields; default (zero or empty) fields are not serialized.    *)
(***************************************************************************)
RECURSIVE varint(_)
varint(n) == IF n < 128 THEN <<n>> ELSE <<128 + (n % 128)>> \o varint(n \div 128)

\* read a varint at position i: [ok, val, next]; varints of more than four bytes
\* do not occur in the model and are reported as malformed
RECURSIVE read_varint(_, _, _)
read_varint(b, i, depth) ==
    IF i > Len(b) \/ depth > 4 THEN [ok |-> FALSE, val |-> 0, next |-> i]
    ELSE IF b[i] < 128 THEN [ok |-> TRUE, val |-> b[i], next |-> i + 1]
    ELSE LET r == read_varint(b, i + 1, depth + 1)
         IN  [ok |-> r.ok, val |-> (b[i] - 128) + 128 * r.val, next |-> r.next]

pb_varint_field(number, value) ==
    IF value = 0 THEN <<>> ELSE <<number * 8>> \o varint(value)

pb_bytes_field(number, value) ==
    IF value = <<>> THEN <<>> ELSE <<number * 8 + 2>> \o varint(Len(value)) \o value

\* ParseFromString: the fields of a message as a sequence of
\* [number, wire, val]; wire type 0 (varint) and 2 (length-delimited)
RECURSIVE pb_parse_fields(_, _)
pb_parse_fields(b, i) ==
    IF i > Len(b) THEN Ok(<<>>)
    ELSE LET number == b[i] \div 8
             wire == b[i] % 8
             v == read_varint(b, i + 1, 1)
         IN  IF b[i] >= 128 \/ number = 0 \/ wire \notin {0, 2} \/ ~v.ok
             THEN Raise("DecodeError")
             ELSE IF wire = 0
             THEN LET r == pb_parse_fields(b, v.next)
                  IN  IF r.exc # "None" THEN r
                      ELSE Ok(<<[number |-> number, wire |-> 0, val |-> <<v.val>>]>>
                              \o r.val)
             ELSE IF v.next + v.val - 1 > Len(b) THEN Raise("DecodeError")
             ELSE LET r == pb_parse_fields(b, v.next + v.val)
                  IN  IF r.exc # "None" THEN r
                      ELSE Ok(<<[number |-> number, wire |-> 2,
                                 val |-> SubSeq(b, v.next, v.next + v.val - 1)]>>
                              \o r.val)

\* the value of field `number` with wire type `wire`: the last occurrence wins,
\* `default` when absent (fields of other numbers are ignored)
RECURSIVE pb_get(_, _, _, _)
pb_get(fields, number, wire, default) ==
    IF fields = <<>> THEN default
    ELSE LET f == fields[Len(fields)]
         IN  IF f.number = number /\ f.wire = wire THEN f.val
             ELSE pb_get(SubSeq(fields, 1, Len(fields) - 1), number, wire, default)

(***************************************************************************)
(* DocumentPayload (models.py): content, metadata, serialized as a         *)
(* protobuf message and compressed.                                        *)
(***************************************************************************)
UTF8_STRING == 0

DocumentPayload(content, metadata) == [content |-> content, metadata |-> metadata]

\* DocumentPayload._to_proto + SerializeToString
DocumentPayload_model_dump_protobuf_bytes(doc) ==
    pb_bytes_field(1, utf8_encode(doc.content))
        \o (IF doc.metadata # "None"
            THEN pb_bytes_field(2, json_dumps(doc.metadata)) ELSE <<>>)
        \o pb_varint_field(3, UTF8_STRING)

DocumentPayload_model_validate_protobuf_bytes(b) ==
    LET pb == pb_parse_fields(b, 1)
    IN  IF pb.exc # "None" THEN pb
        ELSE LET content == pb_get(pb.val, 1, 2, <<>>)
                 metadata == pb_get(pb.val, 2, 2, <<>>)
                 data_type == pb_get(pb.val, 3, 0, <<0>>)[1]
                 meta_json == IF Len(metadata) > 0 THEN json_loads(metadata)
                              ELSE Ok("None")
                 text == utf8_decode(content)
             IN  IF meta_json.exc # "None" THEN meta_json
                 ELSE IF data_type # UTF8_STRING THEN Raise("ValueError")
                 ELSE IF text.exc # "None" THEN text
                 ELSE Ok(DocumentPayload(text.val, meta_json.val))

\* the low byte of Adler-32: 1 + the sum of the bytes, modulo 65521
adler_byte(b) == ((1 + SumSeq(b)) % 65521) % 256

\* zlib.compress: a zlib stream is a header byte 0x78, the deflate data and the
\* checksum of the uncompressed data; the deflate data is modelled as one stored
\* block, the length of the data followed by the data
ZLIB_HEADER == 120

zlib_compress(raw) == <<ZLIB_HEADER>> \o varint(Len(raw)) \o raw \o <<adler_byte(raw)>>

\* a zlib.decompress that refuses bytes after the end of the stream
zlib_decompress_strict(b) ==
    IF Len(b) < 1 \/ b[1] # ZLIB_HEADER THEN Raise("zlib.error")
    ELSE LET n == read_varint(b, 2, 1)
         IN  IF ~n.ok \/ n.next + n.val # Len(b) THEN Raise("zlib.error")
             ELSE LET raw == SubSeq(b, n.next, n.next + n.val - 1)
                  IN  IF b[n.next + n.val] # adler_byte(raw) THEN Raise("zlib.error")
                      ELSE Ok(raw)

\* zlib.decompress: bytes after the end of the stream are ignored
zlib_decompress(b) ==
    IF Len(b) < 1 \/ b[1] # ZLIB_HEADER THEN Raise("zlib.error")
    ELSE LET n == read_varint(b, 2, 1)
         IN  IF ~n.ok \/ n.next + n.val > Len(b) THEN Raise("zlib.error")
             ELSE LET raw == SubSeq(b, n.next, n.next + n.val - 1)
                  IN  IF b[n.next + n.val] # adler_byte(raw) THEN Raise("zlib.error")
                      ELSE Ok(raw)

DocumentPayload_model_dump_compressed_bytes(doc) ==
    zlib_compress(DocumentPayload_model_dump_protobuf_bytes(doc))

DocumentPayload_model_validate_compressed_bytes(b) ==
    LET inflated == zlib_decompress(b)
    IN  IF inflated.exc # "None" THEN inflated
        ELSE DocumentPayload_model_validate_protobuf_bytes(inflated.val)

(***************************************************************************)
(* The fingerprint: hashlib.shake_256(b).digest(8) as an integer.  The     *)
(* digest is modelled by a polynomial hash of the bytes into 0..65520.     *)
(***************************************************************************)
RECURSIVE shake_256_fold(_, _)
shake_256_fold(b, acc) ==
    IF b = <<>> THEN acc
    ELSE shake_256_fold(Tail(b), (acc * 257 + Head(b) + 1) % 65521)

shake_256_digest8(b) == shake_256_fold(b, 7)

\* a fingerprint of the bytes as they are, padding included
document_hash_unstripped(total_payload_bytes) == shake_256_digest8(total_payload_bytes)

document_hash_of(total_payload_bytes) == shake_256_digest8(strip_nulls(total_payload_bytes))

(***************************************************************************)
(* QRMeta and QRContent (models.py) and their base-85 wire form.           *)
(***************************************************************************)
QRMeta(document_hash, sequence_number, total_qr_codes, num_ecc) ==
    [document_hash |-> document_hash, sequence_number |-> sequence_number,
     total_qr_codes |-> total_qr_codes, num_ecc |-> num_ecc]

QRContent(meta, doc_fragment) == [meta |-> meta, doc_fragment |-> doc_fragment]

QRMeta_to_proto_bytes(meta) ==
    pb_varint_field(1, meta.document_hash)
        \o pb_varint_field(2, meta.sequence_number)
        \o pb_varint_field(3, meta.total_qr_codes)
        \o pb_varint_field(4, meta.num_ecc)

\* the meta submessage is always set, so it is serialized even when empty
QRContent_model_dump_protobuf_bytes(qr) ==
    LET meta_bytes == QRMeta_to_proto_bytes(qr.meta)
    IN  <<10>> \o varint(Len(meta_bytes)) \o meta_bytes
            \o pb_bytes_field(2, qr.doc_fragment)

\* QRMeta._from_proto: the pydantic field constraints (total_qr_codes > 0; the
\* other fields >= 0, which unsigned protobuf fields always satisfy)
QRMeta_from_proto(b) ==
    LET pb == pb_parse_fields(b, 1)
    IN  IF pb.exc # "None" THEN pb
        ELSE LET meta == QRMeta(pb_get(pb.val, 1, 0, <<0>>)[1],
                                pb_get(pb.val, 2, 0, <<0>>)[1],
                                pb_get(pb.val, 3, 0, <<0>>)[1],
                                pb_get(pb.val, 4, 0, <<0>>)[1])
             IN  IF meta.total_qr_codes > 0 THEN Ok(meta)
                 ELSE Raise("ValidationError")

QRContent_model_validate_protobuf_bytes(b) ==
    LET pb == pb_parse_fields(b, 1)
    IN  IF pb.exc # "None" THEN pb
        ELSE LET meta == QRMeta_from_proto(pb_get(pb.val, 1, 2, <<>>))
             IN  IF meta.exc # "None" THEN meta
                 ELSE Ok(QRContent(meta.val, pb_get(pb.val, 2, 2, <<>>)))

\* base64.b85encode of one group of four bytes: five base-85 digits
b85_group(b) ==
    LET n0 == <<b[1] * 256 + b[2], b[3] * 256 + b[4]>>
        n1 == BigDivSmall(n0, 85)
        n2 == BigDivSmall(n1, 85)
        n3 == BigDivSmall(n2, 85)
        n4 == BigDivSmall(n3, 85)
    IN  <<BigModSmall(n4, 85), BigModSmall(n3, 85), BigModSmall(n2, 85),
          BigModSmall(n1, 85), BigModSmall(n0, 85)>>

RECURSIVE b85_groups(_)
b85_groups(b) ==
    IF b = <<>> THEN <<>> ELSE b85_group(SubSeq(b, 1, 4)) \o b85_groups(SubSeq(b, 5, Len(b)))

b85encode(b) ==
    LET padding == (4 - (Len(b) % 4)) % 4
        chars == b85_groups(b \o Zeros(padding))
    IN  SubSeq(chars, 1, Len(chars) - padding)

\* one group of five digits back to four bytes; a character outside the alphabet
\* or a group value above 2^32 - 1 is a ValueError
b85_ungroup(c) ==
    LET step(acc, d) == BigAdd(BigMulSmall(acc, 85), <<0, d>>)
        n == step(step(step(step(<<0, c[1]>>, c[2]), c[3]), c[4]), c[5])
    IN  IF \E i \in 1..5 : c[i] > 84 THEN Raise("ValueError")
        ELSE IF n[1] >= BigBase THEN Raise("ValueError")
        ELSE Ok(<<n[1] \div 256, n[1] % 256, n[2] \div 256, n[2] % 256>>)

RECURSIVE b85_ungroups(_)
b85_ungroups(c) ==
    IF c = <<>> THEN Ok(<<>>)
    ELSE LET g == b85_ungroup(SubSeq(c, 1, 5))
         IN  IF g.exc # "None" THEN g
             ELSE LET r == b85_ungroups(SubSeq(c, 6, Len(c)))
                  IN  IF r.exc # "None" THEN r ELSE Ok(g.val \o r.val)

b85decode(c) ==
    LET padding == (5 - (Len(c) % 5)) % 5
        r == b85_ungroups(c \o Tup([i \in 1..padding |-> 84]))
    IN  IF r.exc # "None" THEN r
        ELSE Ok(SubSeq(r.val, 1, Len(r.val) - padding))

QRContent_model_dump_b85_bytes(qr) == b85encode(QRContent_model_dump_protobuf_bytes(qr))

QRContent_model_validate_b85_bytes(c) ==
    LET decoded_bytes == b85decode(c)
    IN  IF decoded_bytes.exc # "None" THEN decoded_bytes
        ELSE QRContent_model_validate_protobuf_bytes(decoded_bytes.val)

(***************************************************************************)
(* Encoding (qr/encode.py)                                                 *)
(***************************************************************************)
ECSettingValues == {"L", "M", "Q", "H"}

\* Sequence number recorded as 32-bit uint: 2^32 as an unbounded natural
N_MAX_QRS == <<BigBase, 0>>

\* EC_CODE_PROPORTION = 0.2 as the fraction EC_NUM / EC_DEN
EC_NUM == 1

EC_DEN == 5

MAX_VARINT_LEN == 10

\* ByteSize of a QRMeta with a 64-bit hash and three 32-bit counters at
\* their maxima: a tag byte each, a 10-byte and three 5-byte varints
MAX_QRMETA_LEN == (1 + 10) + 3 * (1 + 5)

PROTOBUF_RESERVED_LEN == MAX_QRMETA_LEN + 4 * MAX_VARINT_LEN

\* Byte capacity of the QR symbol per error-correction level.  The capacity
\* table is scaled down so that documents of a few bytes span several
\* codes: the room left after the reserved length is CapacityUnit bytes at
\* level H, growing by CapacityUnit per level up to L.
CapacityUnit == 5

QR_CAPACITIES ==
    [H |-> PROTOBUF_RESERVED_LEN + CapacityUnit,
     Q |-> PROTOBUF_RESERVED_LEN + 2 * CapacityUnit,
     M |-> PROTOBUF_RESERVED_LEN + 3 * CapacityUnit,
     L |-> PROTOBUF_RESERVED_LEN + 4 * CapacityUnit]

\* a chunk size that reserves the room of the QRMeta alone
payload_size_reserving_meta(max_qr_bytes) == ((max_qr_bytes - MAX_QRMETA_LEN) \div 5) * 4

\* the chunk size for a symbol of max_qr_bytes bytes: the reserved length is
\* taken off, and the rest reduced to account for b85 inflation
payload_size_of(max_qr_bytes) == ((max_qr_bytes - PROTOBUF_RESERVED_LEN) \div 5) * 4

single_qr_payload_size(error_tolerance) == payload_size_of(QR_CAPACITIES[error_tolerance])

\* _split_file_content: chunks of equal length, the last one null padded
RECURSIVE split_file_content(_, _)
split_file_content(content, maximum_length) ==
    IF Len(content) > maximum_length
    THEN <<SubSeq(content, 1, maximum_length)>>
             \o split_file_content(SubSeq(content, maximum_length + 1, Len(content)),
                                   maximum_length)
    ELSE <<content \o Zeros(maximum_length - Len(content))>>

\* a chunker that pads the document that fits in a single code as well
raw_payload_fragments_padded(total_payload_bytes, size) ==
    split_file_content(total_payload_bytes, size)

\* If the document fits in a single code, it is not split (and not padded)
raw_payload_fragments(total_payload_bytes, size) ==
    IF Len(total_payload_bytes) <= size THEN <<total_payload_bytes>>
    ELSE split_file_content(total_payload_bytes, size)

\* a max_ecc that rounds 256 * e / (1 + e) down
max_ecc_rounded_down == (256 * EC_NUM) \div (EC_DEN + EC_NUM)

\* max_ecc = ceil(256 * e / (1 + e))
max_ecc == CeilDiv(256 * EC_NUM, EC_DEN + EC_NUM)

\* a num_ecc that rounds n * e down
num_ecc_rounded_down(n_raw_fragments, encode_ec_codes) ==
    IF ~encode_ec_codes THEN 0
    ELSE LET c == BigDivSmall(BigMulSmall(n_raw_fragments, EC_NUM), EC_DEN)
         IN  IF BigGeq(c, Big(max_ecc)) THEN max_ecc ELSE c[2]

\* num_ecc for n_raw_fragments (an unbounded natural): min(max_ecc, ceil(n * e))
num_ecc_of(n_raw_fragments, encode_ec_codes) ==
    IF ~encode_ec_codes THEN 0
    ELSE LET c == BigCeilDivSmall(BigMulSmall(n_raw_fragments, EC_NUM), EC_DEN)
         IN  IF BigGeq(c, Big(max_ecc)) THEN max_ecc ELSE c[2]

\* the projected number of QR codes
n_qr_expected_of(n_raw_fragments, encode_ec_codes) ==
    IF ~encode_ec_codes THEN n_raw_fragments
    ELSE LET num_ecc == num_ecc_of(n_raw_fragments, encode_ec_codes)
         IN  BigAdd(n_raw_fragments,
                    BigAdd(Big(1),
                           BigMulSmall(BigDivSmall(n_raw_fragments, 256 - num_ecc),
                                       num_ecc)))

\* a warning given whenever the projected number of QR codes exceeds 256
long_processing_warning_projected(n_raw_fragments, encode_ec_codes) ==
    BigGeq(n_qr_expected_of(n_raw_fragments, encode_ec_codes), Big(257))

\* n_raw_fragments * (1 + e) >= 256: the long-processing warning
long_processing_warning(n_raw_fragments, encode_ec_codes) ==
    encode_ec_codes
        /\ BigGeq(BigMulSmall(n_raw_fragments, EC_DEN + EC_NUM), Big(256 * EC_DEN))

too_many_codes(n_raw_fragments, encode_ec_codes) ==
    BigGeq(n_qr_expected_of(n_raw_fragments, encode_ec_codes), N_MAX_QRS)

\* a _generate_ec_fragments that strips the nulls of the fragments it returns
generate_ec_fragments_stripped(payload_fragments, num_ecc) ==
    LET groups == ZipRows(payload_fragments)
        encoded == Tup([g \in 1..Len(groups) |-> RSCodec_encode(groups[g], num_ecc)])
        output_fragments == ZipRows(encoded)
    IN  Tup([i \in 1..Len(output_fragments) |-> strip_nulls(output_fragments[i])])

\* _generate_ec_fragments: the codec runs down the columns of the fragments
generate_ec_fragments(payload_fragments, num_ecc) ==
    LET groups == ZipRows(payload_fragments)
        encoded == Tup([g \in 1..Len(groups) |-> RSCodec_encode(groups[g], num_ecc)])
    IN  ZipRows(encoded)

\* frames numbered from 1
qr_frames_from_one(payload_fragments, document_hash, num_ecc) ==
    Tup([i \in 1..Len(payload_fragments) |->
            QRContent(QRMeta(document_hash, i, Len(payload_fragments), num_ecc),
                      payload_fragments[i])])

\* the frames of the document: one QRContent per fragment, numbered in order
qr_frames(payload_fragments, document_hash, num_ecc) ==
    Tup([i \in 1..Len(payload_fragments) |->
            QRContent(QRMeta(document_hash, i - 1, Len(payload_fragments), num_ecc),
                      payload_fragments[i])])

\* generate_qr_payloads: the b85 payloads (val) with the locals they came from
generate_qr_payloads(document_content, encode_ec_codes, error_tolerance) ==
    LET total_payload_bytes ==
            DocumentPayload_model_dump_compressed_bytes(document_content)
        document_hash == document_hash_of(total_payload_bytes)
        raw_fragments ==
            raw_payload_fragments(total_payload_bytes,
                                  single_qr_payload_size(error_tolerance))
        n_raw_fragments == Big(Len(raw_fragments))
        num_ecc == num_ecc_of(n_raw_fragments, encode_ec_codes)
        payload_fragments ==
            IF num_ecc > 0 THEN generate_ec_fragments(raw_fragments, num_ecc)
            ELSE raw_fragments
        frames == qr_frames(payload_fragments, document_hash, num_ecc)
        locals == [total_payload_bytes |-> total_payload_bytes,
                   document_hash |-> document_hash,
                   raw_fragments |-> raw_fragments,
                   num_ecc |-> num_ecc,
                   warned |-> long_processing_warning(n_raw_fragments, encode_ec_codes)]
    IN  IF too_many_codes(n_raw_fragments, encode_ec_codes)
        THEN [exc |-> "QREncodeError", val |-> <<>>, frames |-> <<>>,
              locals |-> locals]
        ELSE [exc |-> "None",
              val |-> Tup([i \in 1..Len(frames) |->
                              QRContent_model_dump_b85_bytes(frames[i])]),
              frames |-> frames,
              locals |-> locals]

(***************************************************************************)
(* Decoding (qr/decode.py).  A Python dict is insertion ordered; the       *)
(* program reads the order only through next(iter(d.values())), the value  *)
(* of the key inserted first, so a dict is modelled by its items and the   *)
(* key inserted first (-1 when empty).                                     *)
(***************************************************************************)
DictEmpty == [first |-> -1, items |-> [k \in {} |-> 0]]

DictKeys(d) == DOMAIN d.items

DictLen(d) == Cardinality(DictKeys(d))

DictFirstValue(d) == d.items[d.first]

\* d[k] = v
DictSet(d, k, v) ==
    [first |-> IF DictKeys(d) = {} THEN k ELSE d.first,
     items |-> [x \in DictKeys(d) \cup {k} |-> IF x = k THEN v ELSE d.items[x]]]

\* a d.update(new) that keeps the values d already has
DictUpdate_keeping(d, new) ==
    [first |-> IF DictKeys(d) = {} THEN new.first ELSE d.first,
     items |-> [x \in DictKeys(d) \cup DictKeys(new) |->
                   IF x \in DictKeys(d) THEN d.items[x] ELSE new.items[x]]]

\* an index that holds what the last pass decoded
DictUpdate_replacing(d, new) == new

\* d.update(new)
DictUpdate(d, new) ==
    [first |-> IF DictKeys(d) = {} THEN new.first ELSE d.first,
     items |-> [x \in DictKeys(d) \cup DictKeys(new) |->
                   IF x \in DictKeys(new) THEN new.items[x] ELSE d.items[x]]]

\* _parse_qr_contents: every decode is parsed and stored under its sequence
\* number; a decode that does not parse raises QRDecodeError with message msg.
\* contents[ii] is what QRContent.model_validate_b85_bytes returns or raises for
\* decode ii.
RECURSIVE parse_qr_contents_from(_, _, _)
parse_qr_contents_from(contents, ii, extracted_contents) ==
    IF ii > Len(contents)
    THEN [exc |-> "None", msg |-> "", val |-> extracted_contents]
    ELSE LET content == contents[ii]
         IN  IF content.exc # "None"
             THEN [exc |-> "QRDecodeError", msg |-> "Could not read QR payload",
                   val |-> DictEmpty]
             ELSE parse_qr_contents_from(
                      contents, ii + 1,
                      DictSet(extracted_contents, content.val.meta.sequence_number,
                              content.val))

parse_qr_contents(decodes) ==
    parse_qr_contents_from(
        Tup([ii \in 1..Len(decodes) |-> QRContent_model_validate_b85_bytes(decodes[ii])]),
        1, DictEmpty)

\* _sufficient_decodes
sufficient_decodes(qr_contents) ==
    IF DictLen(qr_contents) = 0 THEN FALSE
    ELSE LET one_code == DictFirstValue(qr_contents)
             required_qrs == one_code.meta.total_qr_codes - one_code.meta.num_ecc
         IN  DictLen(qr_contents) >= required_qrs

\* the elements of a finite set of integers in ascending order
RECURSIVE SortedSeq(_)
SortedSeq(S) ==
    IF S = {} THEN <<>>
    ELSE LET m == CHOOSE x \in S : \A y \in S : x <= y
         IN  <<m>> \o SortedSeq(S \ {m})

MaxOf(S) == CHOOSE x \in S : \A y \in S : x >= y

\* the columns of the payloads, each decoded with the dropped codes as erasures
RECURSIVE decode_symbols(_, _, _)
decode_symbols(received_symbols, num_ecc, dropped_code_inds) ==
    IF received_symbols = <<>> THEN Ok(<<>>)
    ELSE LET x == RSCodec_decode(Head(received_symbols), num_ecc, dropped_code_inds)
         IN  IF x.exc # "None" THEN x
             ELSE LET r == decode_symbols(Tail(received_symbols), num_ecc,
                                          dropped_code_inds)
                  IN  IF r.exc # "None" THEN r ELSE Ok(<<x.val>> \o r.val)

\* a requirement that is one code short
min_qrs_needed_lax(total_qr_codes, num_ecc) == total_qr_codes - num_ecc - 1

min_qrs_needed_of(total_qr_codes, num_ecc) == total_qr_codes - num_ecc

\* a reconstruction that does not notice the missing codes
dropped_code_inds_unnoticed(total_qr_codes, extracted_keys) == <<>>

\* the missing sequence numbers taken from 0 through total_qr_codes
dropped_code_inds_through_total(total_qr_codes, extracted_keys) ==
    SortedSeq({seq_num \in 0..total_qr_codes : seq_num \notin extracted_keys})

\* the sequence numbers below total_qr_codes that were not extracted
dropped_code_inds_of(total_qr_codes, extracted_keys) ==
    SortedSeq({seq_num \in 0..(total_qr_codes - 1) : seq_num \notin extracted_keys})

\* a checksum comparison that accepts everything
checksum_unchecked(document_hash_check, document_hash) == TRUE

checksum_matches(document_hash_check, document_hash) ==
    document_hash_check = document_hash

\* What decode_qr_pdf did: exc is "None" when it returned, else the exception it
\* raised with message msg; kind is "DocumentPayload" or "None" for what it
\* returned; locals are the locals of _reconstruct_document_payload (-1 for a
\* hash that was not computed).
NoLocals ==
    [dropped_code_inds |-> <<>>, total_payload_bytes |-> <<>>,
     document_hash_check |-> -1, document_hash |-> -1, inflated |-> FALSE]

Returned(v, locals) ==
    [exc |-> "None", kind |-> "DocumentPayload", msg |-> "", val |-> v,
     locals |-> locals]

ReturnedNone ==
    [exc |-> "None", kind |-> "None", msg |-> "", val |-> <<>>, locals |-> NoLocals]

Raised(e, msg, locals) ==
    [exc |-> e, kind |-> "raised", msg |-> msg, val |-> <<>>, locals |-> locals]

\* _reconstruct_document_payload, with the locals the result came from
reconstruct_document_payload(extracted_contents) ==
    LET first_content == DictFirstValue(extracted_contents)
        total_qr_codes == first_content.meta.total_qr_codes
        num_ecc == first_content.meta.num_ecc
        min_qrs_needed == min_qrs_needed_of(total_qr_codes, num_ecc)
        max_payload_len ==
            MaxOf({Len(extracted_contents.items[seq].doc_fragment) :
                      seq \in DictKeys(extracted_contents)})
        dropped_code_inds ==
            dropped_code_inds_of(total_qr_codes, DictKeys(extracted_contents))
        keys == SortedSeq(DictKeys(extracted_contents) \cup Range(dropped_code_inds))
        sorted_payloads ==
            Tup([i \in 1..Len(keys) |->
                    IF keys[i] \in DictKeys(extracted_contents)
                    THEN extracted_contents.items[keys[i]].doc_fragment
                    ELSE Zeros(max_payload_len)])
        fixed_symbols ==
            IF num_ecc > 0
            THEN decode_symbols(ZipRows(sorted_payloads), num_ecc, dropped_code_inds)
            ELSE Ok(<<>>)
        post_ec_payloads ==
            IF num_ecc > 0 THEN ZipRows(fixed_symbols.val) ELSE sorted_payloads
        total_payload_bytes == Concat(post_ec_payloads)
        document_hash_check == document_hash_of(total_payload_bytes)
        output == DocumentPayload_model_validate_compressed_bytes(total_payload_bytes)
        none == [NoLocals EXCEPT !.document_hash = first_content.meta.document_hash]
    IN  IF DictLen(extracted_contents) < min_qrs_needed
        THEN Raised("QRDecodeError", "Insufficient QR payloads for recovery", none)
        ELSE IF fixed_symbols.exc # "None"
        THEN Raised(fixed_symbols.exc, "",
                    [none EXCEPT !.dropped_code_inds = dropped_code_inds])
        ELSE LET locals == [none EXCEPT
                               !.dropped_code_inds = dropped_code_inds,
                               !.total_payload_bytes = total_payload_bytes,
                               !.document_hash_check = document_hash_check]
             IN  IF ~checksum_matches(document_hash_check,
                                      first_content.meta.document_hash)
                 THEN Raised("QRDecodeError",
                             "Recovered document does not match checksum", locals)
                 ELSE IF output.exc # "None"
                 THEN Raised(output.exc, "", [locals EXCEPT !.inflated = TRUE])
                 ELSE Returned(output.val, [locals EXCEPT !.inflated = TRUE])

\* a ladder that applies every blur twice before it applies it once
FILTER_PASSES_twice_first ==
    <<<<0, 0>>, <<2, 2>>, <<2, 1>>, <<3, 2>>, <<3, 1>>, <<4, 2>>, <<4, 1>>>>

\* the image filters of the raw pass and of the retry passes, in order:
\* <<blur radius, number of times the blur is applied>>
FILTER_PASSES ==
    <<<<0, 0>>, <<2, 1>>, <<2, 2>>, <<3, 1>>, <<3, 2>>, <<4, 1>>, <<4, 2>>>>

\* a decode_qr_pdf that gives up on a single code
too_few_codes_extracted(extracted_contents) == DictLen(extracted_contents) <= 1

\* decode_qr_pdf: None when no code was extracted
no_codes_extracted(extracted_contents) == DictLen(extracted_contents) = 0

(***************************************************************************)
(* The number of codes of large documents.  The chunks of a large document *)
(* are not listed: the document is known by its number of chunks           *)
(* n_raw_fragments, and its frames by their kind, "data" or "parity".      *)
(***************************************************************************)
\* Len(RSCodec.encode(data)) for a message of n symbols: every chunk of
\* (255 - nsym) symbols gains nsym parity symbols
RSCodec_encode_len(n, nsym) ==
    BigAdd(n, BigMulSmall(BigCeilDivSmall(n, RS_NSIZE - nsym), nsym))

\* total_qr_codes = len(payload_fragments) after _generate_ec_fragments
total_qr_codes_of(n_raw_fragments, encode_ec_codes) ==
    LET num_ecc == num_ecc_of(n_raw_fragments, encode_ec_codes)
    IN  IF num_ecc > 0 THEN RSCodec_encode_len(n_raw_fragments, num_ecc)
        ELSE n_raw_fragments

\* the fragments after _generate_ec_fragments, by kind
payload_fragment_kinds(n, num_ecc) ==
    IF num_ecc > 0 THEN RSCodec_encode_kinds(n, num_ecc)
    ELSE Tup([i \in 1..n |-> "data"])

(***************************************************************************)
(* The state machine: a document is encoded into the QR payloads of a PDF; *)
(* the PDF (possibly with one damaged code, or another PDF without codes)  *)
(* is decoded in passes over the page images, each pass reading some of    *)
(* the codes; the document is reconstructed from the codes read.           *)
(***************************************************************************)
\* the length of the long document text of the model
LongTextLen == 13

\* codes are damaged only in PDFs with at most this many codes
MaxDamagedPdfCodes == 4

\* a pass reads every code of the PDF, or at most this many of them
MaxPartialRead == 2

Documents ==
    {DocumentPayload(<<>>, "None"),
     DocumentPayload(<<>>, "false"),
     DocumentPayload(<<121, 122>>, "None"),
     DocumentPayload(<<97, 97, 97>>, "None"),
     DocumentPayload(<<97, 0, 233>>, "emptystring"),
     DocumentPayload(Tup([i \in 1..LongTextLen |-> 97]), "zero")}

VARIABLES
    pc,                 \* "start", "encoded", "encode_error", "pdf", "extracted", "done"
    document_content,   \* the DocumentPayload given to encode
    encode_ec_codes,    \* encode setting
    error_tolerance,    \* encode setting
    n_raw_fragments,    \* encode: the number of chunks of the compressed document
    encoded,            \* what generate_qr_payloads returned or raised
    page_qrs,           \* the QR payloads on the pages of the PDF being decoded
    passes,             \* the filters of the decode passes run so far
    extracted_contents, \* decode: the frames indexed by sequence number
    result              \* what decode_qr_pdf returned or raised

vars == <<pc, document_content, encode_ec_codes, error_tolerance, n_raw_fragments,
          encoded, page_qrs, passes, extracted_contents, result>>

NoResult ==
    [exc |-> "None", kind |-> "pending", msg |-> "", val |-> <<>>,
     locals |-> NoLocals]

Init ==
    /\ pc = "start"
    /\ document_content \in Documents
    /\ encode_ec_codes \in BOOLEAN
    /\ error_tolerance \in ECSettingValues
    /\ n_raw_fragments = Big(0)
    /\ encoded = Raise("pending")
    /\ page_qrs = <<>>
    /\ passes = <<>>
    /\ extracted_contents = DictEmpty
    /\ result = NoResult

\* encode_qr_pdf up to the QR payloads
Encode ==
    /\ pc = "start"
    /\ encoded' = generate_qr_payloads(document_content, encode_ec_codes,
                                       error_tolerance)
    /\ n_raw_fragments' = Big(Len(encoded'.locals.raw_fragments))
    /\ pc' = IF encoded'.exc = "None" THEN "encoded" ELSE "encode_error"
    /\ UNCHANGED <<document_content, encode_ec_codes, error_tolerance, page_qrs,
                   passes, extracted_contents, result>>

\* the PDF reaches the decoder with every code as it was encoded
DeliverPdf ==
    /\ pc = "encoded"
    /\ page_qrs' = encoded.val
    /\ pc' = "pdf"
    /\ UNCHANGED <<document_content, encode_ec_codes, error_tolerance,
                   n_raw_fragments, encoded, passes, extracted_contents, result>>

\* a code whose payload fails base-85 decoding: one character is not in the alphabet
bad_character(payload) == [payload EXCEPT ![1] = 85]

\* a code whose payload fails frame parsing: the last character is lost
truncated(payload) == SubSeq(payload, 1, Len(payload) - 1)

\* a code that parses but carries a changed fragment
altered(frame) ==
    QRContent_model_dump_b85_bytes(
        QRContent(frame.meta,
                  [frame.doc_fragment EXCEPT ![1] = (frame.doc_fragment[1] + 1) % 256]))

\* the PDF reaches the decoder with one code damaged
DeliverDamagedPdf ==
    /\ pc = "encoded"
    /\ Len(encoded.val) <= MaxDamagedPdfCodes
    /\ \E i \in DOMAIN encoded.val :
         \E damaged \in {bad_character(encoded.val[i]), truncated(encoded.val[i]),
                         altered(encoded.frames[i])} :
            page_qrs' = [encoded.val EXCEPT ![i] = damaged]
    /\ pc' = "pdf"
    /\ UNCHANGED <<document_content, encode_ec_codes, error_tolerance,
                   n_raw_fragments, encoded, passes, extracted_contents, result>>

\* the decoder is given a PDF that holds no QR code
DeliverOtherPdf ==
    /\ pc = "encoded"
    /\ page_qrs' = <<>>
    /\ pc' = "pdf"
    /\ UNCHANGED <<document_content, encode_ec_codes, error_tolerance,
                   n_raw_fragments, encoded, passes, extracted_contents, result>>

\* the sets of codes the QR reader may decode in the images of one pass
ReadableSets(qrs) ==
    {readable \in SUBSET DOMAIN qrs :
        Cardinality(readable) <= MaxPartialRead \/ readable = DOMAIN qrs}

\* _batch_decode_qr_imgs: what it returns or raises for each set of codes the
\* QR reader may decode, the decodes in page order
batch_decode_qr_imgs(qrs) ==
    LET contents ==
            Tup([i \in 1..Len(qrs) |-> QRContent_model_validate_b85_bytes(qrs[i])])
    IN  {parse_qr_contents_from(
             Tup([ii \in 1..Cardinality(readable) |->
                     contents[SortedSeq(readable)[ii]]]),
             1, DictEmpty) : readable \in ReadableSets(qrs)}

\* One pass of _extract_qr_contents_from_images: the raw pass
\* (_batch_decode_qr_imgs on the page images) or the next pass of
\* _batch_filter_and_decode_qr_imgs.
DecodePass ==
    /\ pc = "pdf"
    /\ Len(passes) < Len(FILTER_PASSES)
    /\ passes' = Append(passes, FILTER_PASSES[Len(passes) + 1])
    /\ \E new_contents \in batch_decode_qr_imgs(page_qrs) :
          IF new_contents.exc # "None"
          THEN /\ result' = Raised(new_contents.exc, new_contents.msg, NoLocals)
               /\ pc' = "done"
               /\ UNCHANGED extracted_contents
          ELSE /\ extracted_contents' =
                      IF passes = <<>> THEN new_contents.val
                      ELSE DictUpdate(extracted_contents, new_contents.val)
               /\ pc' = IF sufficient_decodes(extracted_contents')
                           \/ Len(passes') = Len(FILTER_PASSES)
                        THEN "extracted" ELSE "pdf"
               /\ UNCHANGED result
    /\ UNCHANGED <<document_content, encode_ec_codes, error_tolerance,
                   n_raw_fragments, encoded, page_qrs>>

\* decode_qr_pdf after the extraction: None without codes, else the
\* reconstructed document or the exception of the reconstruction
Reconstruct ==
    /\ pc = "extracted"
    /\ result' = IF no_codes_extracted(extracted_contents)
                 THEN ReturnedNone
                 ELSE reconstruct_document_payload(extracted_contents)
    /\ pc' = "done"
    /\ UNCHANGED <<document_content, encode_ec_codes, error_tolerance,
                   n_raw_fragments, encoded, page_qrs, passes, extracted_contents>>

Next ==
    \/ Encode
    \/ DeliverPdf
    \/ DeliverDamagedPdf
    \/ DeliverOtherPdf
    \/ DecodePass
    \/ Reconstruct

Spec == Init /\ [][Next]_vars

(***************************************************************************)
(* The state machine of the number of codes: generate_qr_payloads for a    *)
(* document known by its number of chunks.                                 *)
(***************************************************************************)
\* the frames are listed for documents of at most this many chunks
MaxCountFragments == 260

\* numbers of chunks around the limit of 2^32 codes
LargeFragmentCounts ==
    {<<54484, 54484>>, <<54484, 54485>>, <<54527, 65535>>, <<54528, 0>>,
     <<BigBase - 1, BigBase - 1>>, <<BigBase, 0>>, <<BigBase, 1>>}

InitCount ==
    /\ pc = "start"
    /\ document_content = "unlisted"
    /\ encode_ec_codes \in BOOLEAN
    /\ error_tolerance = "M"
    /\ n_raw_fragments \in {Big(n) : n \in 1..MaxCountFragments}
                               \cup LargeFragmentCounts
    /\ encoded = Raise("pending")
    /\ page_qrs = <<>>
    /\ passes = <<>>
    /\ extracted_contents = DictEmpty
    /\ result = NoResult

\* generate_qr_payloads from the number of chunks to the check of the
\* projected number of codes
CountCodes ==
    /\ pc = "start"
    /\ encoded' =
          [exc |-> IF too_many_codes(n_raw_fragments, encode_ec_codes)
                   THEN "QREncodeError" ELSE "None",
           val |-> <<>>,
           frames |-> <<>>,
           locals |-> [num_ecc |-> num_ecc_of(n_raw_fragments, encode_ec_codes),
                       n_qr_expected |->
                           n_qr_expected_of(n_raw_fragments, encode_ec_codes),
                       warned |->
                           long_processing_warning(n_raw_fragments, encode_ec_codes),
                       total_qr_codes |-> Big(0)]]
    /\ pc' = IF encoded'.exc = "None" THEN "counted" ELSE "encode_error"
    /\ UNCHANGED <<document_content, encode_ec_codes, error_tolerance,
                   n_raw_fragments, page_qrs, passes, extracted_contents, result>>

\* generate_qr_payloads from the parity chunks to the frames.  A count that
\* does not fit the uint32 field of the frame is refused by the protobuf
\* message with a ValueError.
EmitFrames ==
    /\ pc = "counted"
    /\ LET num_ecc == encoded.locals.num_ecc
           total_qr_codes == total_qr_codes_of(n_raw_fragments, encode_ec_codes)
           listed == BigIsSmall(n_raw_fragments)
                        /\ n_raw_fragments[2] <= MaxCountFragments
       IN  /\ encoded' =
                 [encoded EXCEPT
                     !.exc = IF BigGeq(total_qr_codes, N_MAX_QRS)
                             THEN "ValueError" ELSE "None",
                     !.frames =
                         IF listed
                         THEN qr_frames(payload_fragment_kinds(n_raw_fragments[2],
                                                               num_ecc),
                                        0, num_ecc)
                         ELSE <<>>,
                     !.locals.total_qr_codes = total_qr_codes]
           /\ pc' = IF encoded'.exc = "None" THEN "encoded" ELSE "encode_error"
    /\ UNCHANGED <<document_content, encode_ec_codes, error_tolerance,
                   n_raw_fragments, page_qrs, passes, extracted_contents, result>>

NextCount ==
    \/ CountCodes
    \/ EmitFrames

SpecCount == InitCount /\ [][NextCount]_vars

(***************************************************************************)
(* Properties                                                              *)
(***************************************************************************)
\* the decoder was given the PDF with every code as it was encoded
IntactPdf == pc \in {"pdf", "extracted", "done"} /\ page_qrs # <<>> /\ page_qrs = encoded.val

\* the number of codes of the encoded document that were not indexed
MissingCodes == Len(encoded.val) - DictLen(extracted_contents)

\* the extraction ran to its end (no pass stopped on an unreadable payload)
ExtractionCompleted == pc = "done" /\ result.msg # "Could not read QR payload"

\* C1 (round trip): when every frame emitted by encode reaches decode
\* unaltered and is indexed, decode returns a DocumentPayload with the content
\* and the metadata that were encoded, for every document, both
\* encode_ec_codes settings and every error_tolerance.
C1_RoundTrip ==
    (pc = "done" /\ IntactPdf /\ MissingCodes = 0)
        => (result.kind = "DocumentPayload" /\ result.val = document_content)

C1_Witness ==
    /\ pc = "done" /\ IntactPdf /\ MissingCodes = 0
    /\ encode_ec_codes /\ encoded.locals.num_ecc = 2
    /\ document_content.metadata = "zero"
    /\ result.kind = "DocumentPayload" /\ result.val = document_content

\* C2 (erasure recovery bound): for a document encoded with encode_ec_codes
\* into frames of which num_ecc are parity, when at most num_ecc frames (data or
\* parity, at any positions) are missing and the others arrive unaltered, the
\* sufficiency check passes and decode returns the original document.
C2_ErasureRecovery ==
    (pc \in {"extracted", "done"} /\ IntactPdf /\ encode_ec_codes
        /\ MissingCodes <= encoded.locals.num_ecc)
        => /\ sufficient_decodes(extracted_contents)
           /\ pc = "done" =>
                 (result.kind = "DocumentPayload" /\ result.val = document_content)

C2_Witness ==
    /\ pc = "done" /\ IntactPdf /\ encode_ec_codes
    /\ encoded.locals.num_ecc = 2 /\ MissingCodes = 2
    /\ 0 \notin DictKeys(extracted_contents)
    /\ (Len(encoded.val) - 1) \notin DictKeys(extracted_contents)
    /\ result.kind = "DocumentPayload" /\ result.val = document_content

\* C3 (insufficient codes): when at least one frame was indexed but, after the
\* raw pass and all retry passes, fewer than total_qr_codes - num_ecc sequence
\* numbers are indexed, decode raises a QRDecodeError and returns no document;
\* so it does whenever num_ecc + 1 frames or more of an encoded document are
\* missing.
C3_InsufficientCodes ==
    (pc = "done" /\ page_qrs # <<>> /\ DictLen(extracted_contents) > 0
        /\ DictLen(extracted_contents) < Len(encoded.val) - encoded.locals.num_ecc)
        => /\ result.kind = "raised" /\ result.exc = "QRDecodeError"
           /\ ExtractionCompleted =>
                 /\ result.msg = "Insufficient QR payloads for recovery"
                 /\ Len(passes) = Len(FILTER_PASSES)

C3_Witness ==
    /\ pc = "done" /\ IntactPdf /\ encode_ec_codes
    /\ MissingCodes = encoded.locals.num_ecc + 1
    /\ DictLen(extracted_contents) > 0
    /\ result.exc = "QRDecodeError"
    /\ result.msg = "Insufficient QR payloads for recovery"

\* code i of the PDF fails base-85 decoding or frame parsing, the others are
\* as they were encoded
BadFrameAt(i) ==
    /\ Len(page_qrs) = Len(encoded.val)
    /\ page_qrs[i] \in {bad_character(encoded.val[i]), truncated(encoded.val[i])}
    /\ \A j \in DOMAIN page_qrs : j # i => page_qrs[j] = encoded.val[j]

\* C4 (a bad frame is treated as missing): a QR payload that fails base-85
\* decoding or frame parsing is dropped alone and is not fatal for the decode
\* call; when the frames parsed from the other codes number at least
\* total_qr_codes - num_ecc, decode returns the original document.
C4_BadFrameTreatedAsMissing ==
    \A i \in DOMAIN page_qrs :
        (pc = "done" /\ BadFrameAt(i))
            => /\ result.msg # "Could not read QR payload"
               /\ DictLen(extracted_contents)
                      >= Len(encoded.val) - encoded.locals.num_ecc
                    => (result.kind = "DocumentPayload"
                            /\ result.val = document_content)

\* C5 (None iff nothing indexed): decode returns None exactly when no frame
\* was indexed after the raw pass and every retry pass; a PDF without QR codes
\* yields None without raising, after all the passes; with a frame indexed,
\* decode returns a DocumentPayload or raises.
C5_NoneIffNothingIndexed ==
    /\ (pc = "done" /\ result.kind = "None")
          => (DictLen(extracted_contents) = 0 /\ Len(passes) = Len(FILTER_PASSES))
    /\ (ExtractionCompleted /\ DictLen(extracted_contents) = 0)
          => (result.kind = "None" /\ result.exc = "None"
                 /\ Len(passes) = Len(FILTER_PASSES))
    /\ (pc = "done" /\ page_qrs = <<>>) => result.kind = "None"
    /\ (pc = "done" /\ DictLen(extracted_contents) > 0)
          => result.kind \in {"DocumentPayload", "raised"}

C5_Witness ==
    /\ pc = "done" /\ page_qrs = <<>>
    /\ result.kind = "None" /\ result.exc = "None"
    /\ Len(passes) = Len(FILTER_PASSES)

\* C6 (integrity): decode returns a DocumentPayload only when the fingerprint
\* recomputed over the null-stripped concatenation of the recovered chunks
\* equals the document_hash of the frame metadata; on a mismatch it raises a
\* QRDecodeError before inflating.
C6_Integrity ==
    /\ (pc = "done" /\ result.kind = "DocumentPayload")
          => /\ result.locals.document_hash_check = result.locals.document_hash
             /\ result.locals.document_hash_check
                    = shake_256_digest8(strip_nulls(result.locals.total_payload_bytes))
    /\ (pc = "done" /\ result.locals.document_hash_check # -1
            /\ result.locals.document_hash_check # result.locals.document_hash)
          => /\ result.kind = "raised" /\ result.exc = "QRDecodeError"
             /\ result.msg = "Recovered document does not match checksum"
             /\ ~result.locals.inflated

C6_Witness ==
    /\ pc = "done"
    /\ result.locals.document_hash_check # -1
    /\ result.locals.document_hash_check # result.locals.document_hash
    /\ result.exc = "QRDecodeError"
    /\ result.msg = "Recovered document does not match checksum"

\* C7 (fingerprint stability): for every compressed document, one with a
\* final byte 0x00 included, the fingerprint decode recomputes over the
\* concatenated null-padded recovered chunks equals the document_hash stored by
\* encode, with no chunk lost and with up to num_ecc chunks lost and recovered.
C7_FingerprintStability ==
    (pc = "done" /\ IntactPdf /\ MissingCodes <= encoded.locals.num_ecc)
        => /\ result.locals.document_hash_check = encoded.locals.document_hash
           /\ strip_nulls(result.locals.total_payload_bytes)
                  = strip_nulls(encoded.locals.total_payload_bytes)

C7_Witness ==
    /\ pc = "done" /\ IntactPdf
    /\ MissingCodes = 1 /\ encoded.locals.num_ecc = 1
    /\ encoded.locals.total_payload_bytes[Len(encoded.locals.total_payload_bytes)] = 0
    /\ Len(result.locals.total_payload_bytes) > Len(encoded.locals.total_payload_bytes)
    /\ result.locals.document_hash_check = encoded.locals.document_hash

\* C9 (chunk uniformity): when num_ecc > 0 all doc_fragments of an encoded
\* document, data and parity, have the same length, also when the compressed
\* document fits a single unpadded chunk.
C9_ChunkUniformity ==
    (pc = "encoded" /\ encoded.locals.num_ecc > 0)
        => \A i, j \in DOMAIN encoded.frames :
              Len(encoded.frames[i].doc_fragment) = Len(encoded.frames[j].doc_fragment)

C9_Witness ==
    /\ pc = "encoded" /\ encoded.locals.num_ecc > 0
    /\ Len(encoded.locals.raw_fragments) = 1
    /\ Len(encoded.frames) = 2
    /\ Len(encoded.frames[1].doc_fragment) < single_qr_payload_size(error_tolerance)
    /\ Len(encoded.frames[2].doc_fragment) = Len(encoded.frames[1].doc_fragment)

\* the frames of a successful encode are numbered 0 .. total_qr_codes - 1 in
\* emission order, carry the same (document_hash, total_qr_codes, num_ecc), with
\* total_qr_codes the number of frames and total_qr_codes - num_ecc >= 1
FramesNumbered ==
    \A i \in DOMAIN encoded.frames :
        /\ encoded.frames[i].meta.sequence_number = i - 1
        /\ encoded.frames[i].meta.document_hash = encoded.frames[1].meta.document_hash
        /\ encoded.frames[i].meta.num_ecc = encoded.locals.num_ecc
        /\ encoded.frames[i].meta.total_qr_codes = Len(encoded.frames)
        /\ encoded.frames[i].meta.total_qr_codes - encoded.frames[i].meta.num_ecc >= 1

\* C8 as stated (sequence coverage): on every successful encode the frames carry
\* the sequence numbers 0 .. total_qr_codes - 1, each once and in emission order,
\* with the parity frames numbered after the data frames; all frames carry the
\* same (document_hash, total_qr_codes, num_ecc); total_qr_codes is the number
\* of frames and total_qr_codes - num_ecc >= 1.
C8_SequenceCoverage ==
    pc = "encoded"
        => /\ FramesNumbered
           /\ \A i, j \in DOMAIN encoded.frames :
                 (encoded.frames[i].doc_fragment = "parity"
                     /\ encoded.frames[j].doc_fragment = "data") => j < i

\* the last frame of the block of RS_NSIZE frames that holds frame i
BlockEnd(i) == Min(Len(encoded.frames), (((i - 1) \div RS_NSIZE) + 1) * RS_NSIZE)

\* C8 amended (sequence coverage): as C8, except that the frames come in blocks
\* of at most 255: in every block the parity frames are the last num_ecc frames
\* and are numbered after the data frames of that block; the parity frames are
\* numbered after all data frames when there are at most 255 - num_ecc data
\* chunks.
C8_SequenceCoverageByBlock ==
    pc = "encoded"
        => /\ FramesNumbered
           /\ \A i \in DOMAIN encoded.frames :
                 encoded.frames[i].doc_fragment =
                     IF i > BlockEnd(i) - encoded.locals.num_ecc
                     THEN "parity" ELSE "data"
           /\ (BigIsSmall(n_raw_fragments)
                  /\ n_raw_fragments[2] <= RS_NSIZE - encoded.locals.num_ecc)
                 => \A i, j \in DOMAIN encoded.frames :
                       (encoded.frames[i].doc_fragment = "parity"
                           /\ encoded.frames[j].doc_fragment = "data") => j < i

C8_Witness ==
    /\ pc = "encoded" /\ encode_ec_codes
    /\ Len(encoded.frames) > RS_NSIZE + 1
    /\ encoded.frames[RS_NSIZE].doc_fragment = "parity"
    /\ encoded.frames[RS_NSIZE].meta.sequence_number = RS_NSIZE - 1
    /\ encoded.frames[RS_NSIZE + 1].doc_fragment = "data"
    /\ encoded.frames[RS_NSIZE + 1].meta.sequence_number = RS_NSIZE

\* C10 (code-count limit): encode raises the too-many-codes QREncodeError
\* whenever the number of codes it would emit, data plus parity, reaches 2^32,
\* and succeeds when that number is 2^32 - 1; every frame of a successful encode
\* has a total_qr_codes (and so a sequence_number) below 2^32; with
\* encode_ec_codes true and false.
C10_CodeCountLimit ==
    pc # "start"
        => /\ BigGeq(total_qr_codes_of(n_raw_fragments, encode_ec_codes), N_MAX_QRS)
                 => encoded.exc = "QREncodeError"
           /\ total_qr_codes_of(n_raw_fragments, encode_ec_codes)
                    = <<BigBase - 1, BigBase - 1>>
                 => pc # "encode_error"
           /\ pc = "encoded" => BigLess(encoded.locals.total_qr_codes, N_MAX_QRS)

\* the defaults of encode_qr_pdf
DEFAULT_ENCODE_EC_CODES == TRUE

DEFAULT_ERROR_TOLERANCE == "M"

\* the empty document without metadata was encoded with the default settings
EmptyDocumentEncoded ==
    /\ pc \notin {"start", "encode_error"}
    /\ document_content = DocumentPayload(<<>>, "None")
    /\ error_tolerance = DEFAULT_ERROR_TOLERANCE

\* decoding the intact PDF returns content "" and metadata None
EmptyDocumentDecoded ==
    (pc = "done" /\ IntactPdf /\ MissingCodes = 0)
        => /\ result.kind = "DocumentPayload"
           /\ result.val.content = <<>>
           /\ result.val.metadata = "None"

\* C11 as stated (empty document): encoding content "" with no metadata with
\* the default settings produces exactly one QR frame (total_qr_codes = 1), and
\* decoding it returns content "" and metadata None.
C11_EmptyDocument ==
    (EmptyDocumentEncoded /\ encode_ec_codes = DEFAULT_ENCODE_EC_CODES)
        => /\ Len(encoded.frames) = 1
           /\ encoded.frames[1].meta.total_qr_codes = 1
           /\ EmptyDocumentDecoded

\* C11 amended (empty document): encoding content "" with no metadata with the
\* default settings (encode_ec_codes true) produces exactly two QR frames, one
\* data frame and one parity frame of the same length (total_qr_codes = 2,
\* num_ecc = 1); with encode_ec_codes false it produces exactly one frame
\* (total_qr_codes = 1, num_ecc = 0); decoding returns content "" and metadata
\* None in both cases.
C11_EmptyDocumentWithParity ==
    EmptyDocumentEncoded
        => /\ Len(encoded.locals.raw_fragments) = 1
           /\ Len(encoded.frames) = (IF encode_ec_codes THEN 2 ELSE 1)
           /\ \A i \in DOMAIN encoded.frames :
                 /\ encoded.frames[i].meta.total_qr_codes = Len(encoded.frames)
                 /\ encoded.frames[i].meta.num_ecc = (IF encode_ec_codes THEN 1 ELSE 0)
                 /\ Len(encoded.frames[i].doc_fragment)
                        = Len(encoded.locals.total_payload_bytes)
           /\ encoded.frames[1].doc_fragment = encoded.locals.total_payload_bytes
           /\ EmptyDocumentDecoded

C11_Witness ==
    /\ EmptyDocumentEncoded /\ encode_ec_codes = DEFAULT_ENCODE_EC_CODES
    /\ pc = "done" /\ IntactPdf /\ MissingCodes = 0
    /\ Len(encoded.frames) = 2
    /\ result.kind = "DocumentPayload" /\ result.val = DocumentPayload(<<>>, "None")

(***************************************************************************)
(* The state machine of the payload: the last step of                      *)
(* _reconstruct_document_payload, DocumentPayload                          *)
(* .model_validate_compressed_bytes, for the compressed payloads of        *)
(* arbitrary DocumentPayload messages whose checksum matched.              *)
(***************************************************************************)
\* the data_type values of the messages: UTF8_STRING and the values above it
MaxDataType == 3

\* the fields of the messages: content bytes (empty, "a", not UTF-8), metadata
\* bytes (absent, JSON texts, "x" and "{" that are not JSON), data_type, and an
\* unknown field 4
PayloadMessages ==
    [content : {<<>>, <<97>>, <<255>>},
     metadata : {<<>>, <<48>>, <<34, 34>>, <<120>>, <<123>>},
     data_type : 0..MaxDataType,
     unknown : BOOLEAN]

\* SerializeToString of a protobuf.DocumentPayload message
PayloadMessageBytes(m) ==
    pb_bytes_field(1, m.content) \o pb_bytes_field(2, m.metadata)
        \o pb_varint_field(3, m.data_type)
        \o (IF m.unknown THEN pb_varint_field(4, 1) ELSE <<>>)

InitPayload ==
    /\ pc = "checked"
    /\ document_content \in PayloadMessages
    /\ encode_ec_codes = DEFAULT_ENCODE_EC_CODES
    /\ error_tolerance = DEFAULT_ERROR_TOLERANCE
    /\ n_raw_fragments = Big(0)
    /\ encoded = Raise("pending")
    /\ page_qrs = <<>>
    /\ passes = <<>>
    /\ extracted_contents = DictEmpty
    /\ result = [NoResult EXCEPT
                    !.locals.total_payload_bytes =
                        zlib_compress(PayloadMessageBytes(document_content))]

\* output = DocumentPayload.model_validate_compressed_bytes(total_payload_bytes)
ValidatePayload ==
    /\ pc = "checked"
    /\ LET output == DocumentPayload_model_validate_compressed_bytes(
                         result.locals.total_payload_bytes)
           locals == [result.locals EXCEPT !.inflated = TRUE]
       IN  result' = IF output.exc # "None" THEN Raised(output.exc, "", locals)
                     ELSE Returned(output.val, locals)
    /\ pc' = "done"
    /\ UNCHANGED <<document_content, encode_ec_codes, error_tolerance,
                   n_raw_fragments, encoded, page_qrs, passes, extracted_contents>>

SpecPayload == InitPayload /\ [][ValidatePayload]_vars

\* C12 (unknown data type): parsing a DocumentPayload message whose data_type
\* is not UTF8_STRING fails with the unknown-data-type error (the ValueError
\* of model_validate_protobuf_bytes) and returns no DocumentPayload, whatever
\* its content and metadata fields hold, metadata that is not JSON included.
C12_UnknownDataType ==
    (pc = "done" /\ document_content.data_type # UTF8_STRING)
        => /\ result.kind = "raised"
           /\ result.exc = "ValueError"

\* a message with an unknown data_type never yields a DocumentPayload
C12_NeverReturned ==
    (pc = "done" /\ document_content.data_type # UTF8_STRING)
        => result.kind = "raised"

\* a message with an unknown data_type whose metadata is not JSON: json.loads
\* raises before the data_type is looked at
C12_BadJsonFirst ==
    /\ pc = "done" /\ document_content.data_type # UTF8_STRING
    /\ document_content.metadata = <<120>>
    /\ result.exc = "JSONDecodeError"

(***************************************************************************)
(* The state machine of get_file_content (qr/encode.py): the bytes of a    *)
(* file are decoded into the text of the document, with the encoding the   *)
(* caller names or with a detected one.                                    *)
(***************************************************************************)
\* the files of the model hold at most this many bytes
MaxFileLen == 2

\* the files, of the bytes "a", a byte cp1251 leaves undefined, two bytes that
\* are letters in cp1251 and latin-1 (the first is also a UTF-8 lead byte)
FileData == UNION {[1..n -> {97, 152, 200, 233}] : n \in 0..MaxFileLen}

\* the encoding argument: codec names, a name no codec has, "None" for detection
Encodings == {"ascii", "utf-8", "latin-1", "cp1251", "no-such-codec", "None"}

\* the text codecs Python knows among the names above
KnownCodecs == {"ascii", "utf-8", "latin-1", "cp1251"}

\* the code point of a byte in cp1251 (-1 when undefined), for the bytes of the model
cp1251_char(b) ==
    IF b < 128 THEN b ELSE IF b >= 192 THEN 1040 + (b - 192) ELSE -1

\* bytes.decode(encoding)
bytes_decode(file_data, encoding) ==
    IF encoding \notin KnownCodecs THEN Raise("LookupError")
    ELSE IF encoding = "utf-8" THEN utf8_decode(file_data)
    ELSE IF encoding = "latin-1" THEN Ok(file_data)
    ELSE IF encoding = "ascii"
    THEN IF \A i \in DOMAIN file_data : file_data[i] < 128 THEN Ok(file_data)
         ELSE Raise("UnicodeDecodeError")
    ELSE IF \A i \in DOMAIN file_data : cp1251_char(file_data[i]) >= 0
    THEN Ok(Tup([i \in DOMAIN file_data |-> cp1251_char(file_data[i])]))
    ELSE Raise("UnicodeDecodeError")

\* the exceptions that "except ValueError" catches
IsValueError(exc) == exc \in {"ValueError", "UnicodeDecodeError"}

\* from_bytes(file_data).best(): a codec that decodes the data, or "None"
from_bytes_best(file_data) ==
    {encoding \in KnownCodecs : bytes_decode(file_data, encoding).exc = "None"}
        \cup {"None"}

\* the input_file context of the logger, before get_file_content binds it
NoFileInfo == [autodetect_encoding |-> "unbound", encoding |-> "unbound"]

\* what get_file_content returns (with the context it binds) or raises
FileContent(file_content, autodetect, encoding) ==
    [exc |-> "None", kind |-> "str", msg |-> "", val |-> file_content,
     locals |-> [autodetect_encoding |-> IF autodetect THEN "True" ELSE "False",
                 encoding |-> encoding]]

InitFile ==
    /\ pc = "file"
    /\ document_content \in [file_data : FileData, encoding : Encodings]
    /\ encode_ec_codes = DEFAULT_ENCODE_EC_CODES
    /\ error_tolerance = DEFAULT_ERROR_TOLERANCE
    /\ n_raw_fragments = Big(0)
    /\ encoded = Raise("pending")
    /\ page_qrs = <<>>
    /\ passes = <<>>
    /\ extracted_contents = DictEmpty
    /\ result = [NoResult EXCEPT !.locals = NoFileInfo]

\* get_file_content(file_data, encoding)
GetFileContent ==
    /\ pc = "file"
    /\ LET file_data == document_content.file_data
           encoding == document_content.encoding
       IN  IF encoding = "None"
           THEN \E decoded_content \in from_bytes_best(file_data) :
                   result' =
                       IF decoded_content = "None"
                       THEN Raised("QREncodeError",
                                   "Could not determine valid encoding for file contents",
                                   NoFileInfo)
                       ELSE FileContent(bytes_decode(file_data, decoded_content).val,
                                        TRUE, decoded_content)
           ELSE LET file_content == bytes_decode(file_data, encoding)
                IN  result' =
                        IF file_content.exc = "None"
                        THEN FileContent(file_content.val, FALSE, encoding)
                        ELSE IF IsValueError(file_content.exc)
                        THEN Raised("QREncodeError",
                                    "Could not decode file with encoding", NoFileInfo)
                        ELSE Raised(file_content.exc, "", NoFileInfo)
    /\ pc' = "done"
    /\ UNCHANGED <<document_content, encode_ec_codes, error_tolerance,
                   n_raw_fragments, encoded, page_qrs, passes, extracted_contents>>

SpecFile == InitFile /\ [][GetFileContent]_vars

\* C13 (unsupported encoding): get_file_content called with an encoding named
\* by the caller returns the decoded text when the input decodes with it, and
\* raises QREncodeError, no other exception and no partial result, whenever
\* decoding the input with that encoding fails.
C13_UnsupportedEncoding ==
    (pc = "done" /\ document_content.encoding # "None")
        => LET decoded == bytes_decode(document_content.file_data,
                                       document_content.encoding)
           IN  IF decoded.exc = "None"
               THEN result.kind = "str" /\ result.val = decoded.val
               ELSE result.kind = "raised" /\ result.exc = "QREncodeError"

\* C13 holds for the encodings that name a codec
C13_KnownCodecs ==
    (pc = "done" /\ document_content.encoding \in KnownCodecs)
        => LET decoded == bytes_decode(document_content.file_data,
                                       document_content.encoding)
           IN  IF decoded.exc = "None"
               THEN result.kind = "str" /\ result.val = decoded.val
               ELSE result.kind = "raised" /\ result.exc = "QREncodeError"

\* C14 (chunker): for a compressed document of length len and the chunk size c,
\* when len <= c (len = c included) the only chunk is the document itself, with
\* no 0x00 added; otherwise there are ceil(len / c) chunks, each of length c,
\* whose concatenation is the document followed only by 0x00 bytes, fewer than
\* c of them and none when c divides len.
C14_Chunker ==
    pc # "start"
        => LET content == encoded.locals.total_payload_bytes
               c == single_qr_payload_size(error_tolerance)
               chunks == encoded.locals.raw_fragments
               padding == Len(chunks) * c - Len(content)
           IN  IF Len(content) <= c THEN chunks = <<content>>
               ELSE /\ Len(chunks) = CeilDiv(Len(content), c)
                    /\ \A i \in DOMAIN chunks : Len(chunks[i]) = c
                    /\ padding >= 0 /\ padding < c
                    /\ (Len(content) % c = 0) => padding = 0
                    /\ Concat(chunks) = content \o Zeros(padding)

C14_Witness ==
    /\ pc # "start"
    /\ Len(encoded.locals.raw_fragments) = 3
    /\ Len(encoded.locals.total_payload_bytes) % single_qr_payload_size(error_tolerance) # 0
    /\ encoded.locals.raw_fragments[3][single_qr_payload_size(error_tolerance)] = 0

\* a document that fills one chunk exactly, and one that fills two
C14_ExactFit ==
    /\ pc # "start"
    /\ Len(encoded.locals.total_payload_bytes) = single_qr_payload_size(error_tolerance)
    /\ encoded.locals.raw_fragments = <<encoded.locals.total_payload_bytes>>

C14_ExactSplit ==
    /\ pc # "start"
    /\ Len(encoded.locals.total_payload_bytes) = 2 * single_qr_payload_size(error_tolerance)
    /\ Len(encoded.locals.raw_fragments) = 2

\* C15 (parity count): num_ecc is 0 when encode_ec_codes is false; otherwise,
\* for k data chunks, num_ecc = min(ceil(256 * 0.2 / 1.2), ceil(0.2 * k))
\* = min(43, ceil(k / 5)), so 1 <= num_ecc <= 43 for every k >= 1.
C15_ParityCount ==
    pc # "start"
        => LET k == n_raw_fragments
               E == encoded.locals.num_ecc
           IN  IF ~encode_ec_codes THEN E = 0
               ELSE /\ E >= 1 /\ E <= 43
                    /\ BigIsSmall(k) => E = Min(43, (k[2] + 4) \div 5)
                    /\ ~BigIsSmall(k) => E = 43

C15_Witness ==
    /\ pc = "encoded" /\ encode_ec_codes
    /\ n_raw_fragments = Big(211)
    /\ encoded.locals.num_ecc = 43
    /\ encoded.frames[1].meta.num_ecc = 43

C17_NoWarningWithEcc ==
    /\ pc = "encoded" /\ encode_ec_codes
    /\ n_raw_fragments = Big(213)
    /\ encoded.locals.n_qr_expected = Big(257)
    /\ ~encoded.locals.warned

C17_NoWarningWithoutEcc ==
    /\ pc = "encoded" /\ ~encode_ec_codes
    /\ n_raw_fragments = Big(257)
    /\ encoded.locals.n_qr_expected = Big(257)
    /\ ~encoded.locals.warned

(***************************************************************************)
(* The state machine of the extraction: _extract_qr_contents_from_images   *)
(* on the pages of a PDF that holds one or two QR codes with arbitrary     *)
(* QRDM frames (codes that no single encode produced).                     *)
(***************************************************************************)
\* the frames of the codes: sequence numbers 0 and 1, total_qr_codes 0 to 2,
\* num_ecc 0 and 1, two fragments
ForeignFrames ==
    {QRContent(QRMeta(0, sequence_number, total_qr_codes, num_ecc), doc_fragment) :
        sequence_number \in {0, 1}, total_qr_codes \in {0, 1, 2},
        num_ecc \in {0, 1}, doc_fragment \in {<<1>>, <<2>>}}

InitExtract ==
    /\ pc = "pdf"
    /\ document_content = DocumentPayload(<<>>, "None")
    /\ encode_ec_codes = DEFAULT_ENCODE_EC_CODES
    /\ error_tolerance = DEFAULT_ERROR_TOLERANCE
    /\ n_raw_fragments = Big(0)
    /\ encoded = Ok({})
    /\ page_qrs \in {<<QRContent_model_dump_b85_bytes(f)>> : f \in ForeignFrames}
                      \cup {<<QRContent_model_dump_b85_bytes(f),
                              QRContent_model_dump_b85_bytes(g)>> :
                                f \in ForeignFrames, g \in ForeignFrames}
    /\ passes = <<>>
    /\ extracted_contents = DictEmpty
    /\ result = NoResult

\* One pass of _extract_qr_contents_from_images, as DecodePass, with the set of
\* codes the QR reader decoded in the pass kept in encoded.val.
ExtractPass ==
    /\ pc = "pdf"
    /\ Len(passes) < Len(FILTER_PASSES)
    /\ passes' = Append(passes, FILTER_PASSES[Len(passes) + 1])
    /\ \E readable \in ReadableSets(page_qrs) :
          LET new_contents ==
                  parse_qr_contents(Tup([ii \in 1..Cardinality(readable) |->
                                            page_qrs[SortedSeq(readable)[ii]]]))
          IN  /\ encoded' = Ok(readable)
              /\ IF new_contents.exc # "None"
                 THEN /\ result' = Raised(new_contents.exc, new_contents.msg, NoLocals)
                      /\ pc' = "done"
                      /\ UNCHANGED extracted_contents
                 ELSE /\ extracted_contents' =
                             IF passes = <<>> THEN new_contents.val
                             ELSE DictUpdate(extracted_contents, new_contents.val)
                      /\ pc' = IF sufficient_decodes(extracted_contents')
                                  \/ Len(passes') = Len(FILTER_PASSES)
                               THEN "extracted" ELSE "pdf"
                      /\ UNCHANGED result
    /\ UNCHANGED <<document_content, encode_ec_codes, error_tolerance,
                   n_raw_fragments, page_qrs>>

SpecExtract == InitExtract /\ [][ExtractPass]_vars

\* the invariants of QRMeta
QRMetaInvariants(meta) ==
    /\ meta.total_qr_codes > 0
    /\ meta.sequence_number < meta.total_qr_codes
    /\ meta.total_qr_codes - meta.num_ecc >= 1

\* C18 (strict frame validation): a frame whose QRMeta violates an invariant
\* (total_qr_codes = 0, or sequence_number >= total_qr_codes, or
\* total_qr_codes - num_ecc < 1) is rejected when it is parsed: no such frame
\* is in the sequence-number index, nor used for the sufficiency threshold.
C18_StrictFrameValidation ==
    /\ \A k \in DictKeys(extracted_contents) :
          QRMetaInvariants(extracted_contents.items[k].meta)
    /\ DictLen(extracted_contents) > 0
          => QRMetaInvariants(DictFirstValue(extracted_contents).meta)

\* a frame with total_qr_codes = 0 is never indexed
C18_TotalPositive ==
    \A k \in DictKeys(extracted_contents) :
        extracted_contents.items[k].meta.total_qr_codes > 0

\* a PDF with the single frame (sequence_number 1, total_qr_codes 1,
\* num_ecc 1): the frame is indexed and the extraction finds it sufficient
C18_InvalidFrameIndexed ==
    /\ pc = "extracted" /\ Len(page_qrs) = 1 /\ Len(passes) = 1
    /\ DictKeys(extracted_contents) = {1}
    /\ extracted_contents.items[1].meta = QRMeta(0, 1, 1, 1)
    /\ sufficient_decodes(extracted_contents)

\* the frame of code j of the PDF
FrameOfCode(j) == QRContent_model_validate_b85_bytes(page_qrs[j]).val

RetryLadder ==
    <<<<0, 0>>, <<2, 1>>, <<2, 2>>, <<3, 1>>, <<3, 2>>, <<4, 1>>, <<4, 2>>>>

\* C20 (retry ladder protocol): the ladder is entered only if the sufficiency
\* check fails on the raw images; its re-decode passes run in the fixed order
\* radius 2 once, radius 2 twice, radius 3 once, radius 3 twice, radius 4 once,
\* radius 4 twice; sufficiency is checked after every pass and no further pass
\* runs once it holds; the ladder ends after at most 6 re-decode passes.
C20_RetryLadder ==
    /\ [](/\ Len(passes) <= 1 + 6
          /\ passes = SubSeq(RetryLadder, 1, Len(passes))
          /\ pc = "extracted"
                => (sufficient_decodes(extracted_contents) \/ Len(passes) = 1 + 6)
          /\ (pc = "pdf" /\ Len(passes) = 1 + 6) => FALSE)
    /\ [][passes' # passes
             => /\ pc = "pdf"
                /\ passes' = Append(passes, RetryLadder[Len(passes) + 1])
                /\ passes # <<>> => ~sufficient_decodes(extracted_contents)
                /\ (pc' = "pdf") <=> (/\ result' = result
                                      /\ ~sufficient_decodes(extracted_contents')
                                      /\ Len(passes') < 1 + 6)]_vars

\* the ladder stopped after the pass of radius 3 applied once, with enough codes
C20_Witness ==
    /\ pc = "extracted"
    /\ passes = <<<<0, 0>>, <<2, 1>>, <<2, 2>>, <<3, 1>>>>
    /\ sufficient_decodes(extracted_contents)
    /\ Len(page_qrs) > 1

\* the ladder ran to its end without enough codes
C20_LadderExhausted ==
    /\ pc = "extracted" /\ Len(passes) = 7
    /\ DictLen(extracted_contents) > 0
    /\ ~sufficient_decodes(extracted_contents)

(***************************************************************************)
(* The state machine of the workers: _batch_decode_qr_imgs maps            *)
(* _pyzbar_decode_qr_job over the page images on a thread pool.  The       *)
(* tasks complete in any order; the driver resumes when list(executor.map) *)
(* has every result.  An image is the sequence of the payloads of its QR   *)
(* codes, page_qrs the sequence of the images, passes the order in which   *)
(* the tasks completed.                                                    *)
(***************************************************************************)
\* a results list filled in the order in which the tasks complete
executor_map_as_completed(images, completed) ==
    Tup([i \in 1..Len(completed) |-> images[completed[i]]])

\* list(executor.map(_pyzbar_decode_qr_job, images)): the decodes of the
\* images in the order of the images, whatever the order of completion
executor_map(images, completed) ==
    Tup([i \in 1..Len(images) |-> images[i]])

\* three page images, each with no code or with one code of a frame with
\* sequence number 0 or 1 and one of two fragments
InitWorkers ==
    /\ pc = "mapped"
    /\ document_content = DocumentPayload(<<>>, "None")
    /\ encode_ec_codes = DEFAULT_ENCODE_EC_CODES
    /\ error_tolerance = DEFAULT_ERROR_TOLERANCE
    /\ n_raw_fragments = Big(0)
    /\ encoded = Raise("pending")
    /\ page_qrs \in [1..3 ->
                       {<<>>} \cup
                       {<<QRContent_model_dump_b85_bytes(
                              QRContent(QRMeta(0, sequence_number, 2, 0), doc_fragment))>> :
                            sequence_number \in {0, 1},
                            doc_fragment \in {<<1>>, <<2>>}}]
    /\ passes = <<>>
    /\ extracted_contents = DictEmpty
    /\ result = NoResult

\* a worker thread finishes the task of image i
WorkerCompletes ==
    /\ pc = "mapped"
    /\ \E i \in DOMAIN page_qrs \ Range(passes) : passes' = Append(passes, i)
    /\ UNCHANGED <<pc, document_content, encode_ec_codes, error_tolerance,
                   n_raw_fragments, encoded, page_qrs, extracted_contents, result>>

\* the driver, once every task is complete: the decodes are chained and parsed
BatchDecodeQrImgs ==
    /\ pc = "mapped"
    /\ Range(passes) = DOMAIN page_qrs
    /\ LET decodes == executor_map(page_qrs, passes)
           flattened_decodes == Concat(decodes)
           qr_contents == parse_qr_contents(flattened_decodes)
       IN  /\ extracted_contents' = qr_contents.val
           /\ result' = IF qr_contents.exc # "None"
                        THEN Raised(qr_contents.exc, qr_contents.msg, NoLocals)
                        ELSE result
    /\ pc' = "merged"
    /\ UNCHANGED <<document_content, encode_ec_codes, error_tolerance,
                   n_raw_fragments, encoded, page_qrs, passes>>

SpecWorkers == InitWorkers /\ [][WorkerCompletes \/ BatchDecodeQrImgs]_vars

\* the frame of the code of image i
FrameOfImage(i) == QRContent_model_validate_b85_bytes(page_qrs[i][1]).val

\* C21 (worker-order independence): for fixed page images the frame index of a
\* decode pass is the same for every completion order of the worker tasks: it
\* holds, under every sequence number, the frame of the last image in page
\* order that carries it, and its first entry is that of the first image with a
\* code; the driver merges only after all the tasks of the pass completed.
C21_WorkerOrderIndependence ==
    /\ [](pc = "merged"
            => LET images == {i \in DOMAIN page_qrs : page_qrs[i] # <<>>}
                   of(k) == {i \in images : FrameOfImage(i).meta.sequence_number = k}
               IN  /\ DictKeys(extracted_contents)
                         = {FrameOfImage(i).meta.sequence_number : i \in images}
                   /\ \A k \in DictKeys(extracted_contents) :
                         extracted_contents.items[k] = FrameOfImage(MaxOf(of(k)))
                   /\ images # {}
                         => extracted_contents.first
                               = FrameOfImage(CHOOSE i \in images :
                                                 \A j \in images : i <= j)
                                     .meta.sequence_number)
    /\ [][extracted_contents' # extracted_contents
             => Range(passes) = DOMAIN page_qrs]_vars

\* the tasks completed in the reverse of the page order, and two images carry
\* different frames with the same sequence number
C21_Witness ==
    /\ pc = "merged" /\ passes = <<3, 2, 1>>
    /\ page_qrs[1] # <<>> /\ page_qrs[3] # <<>>
    /\ FrameOfImage(1).meta.sequence_number = FrameOfImage(3).meta.sequence_number
    /\ FrameOfImage(1).doc_fragment # FrameOfImage(3).doc_fragment
    /\ extracted_contents.items[FrameOfImage(3).meta.sequence_number] = FrameOfImage(3)

\* the reconstruction got past the count of the indexed frames
ReconstructionStarted ==
    /\ pc = "done" /\ ExtractionCompleted
    /\ DictLen(extracted_contents) > 0
    /\ result.msg # "Insufficient QR payloads for recovery"

\* C22 (erasure positions): at reconstruction the erasures given to the
\* Reed-Solomon decoder are, in ascending order, exactly the sequence numbers in
\* 0..total_qr_codes-1 under which no frame is indexed; the indexed fragments
\* have one length L, the length of the zero filling; and the recovered payload
\* is the chunks of the data positions in ascending order of sequence number,
\* L bytes each, an indexed position contributing its fragment and a missing
\* one the fragment that was encoded.
C22_ErasurePositions ==
    ReconstructionStarted =>
        LET first_content == DictFirstValue(extracted_contents)
            total_qr_codes == first_content.meta.total_qr_codes
            n_data == total_qr_codes - first_content.meta.num_ecc
            keys == DictKeys(extracted_contents)
            erase_pos == result.locals.dropped_code_inds
            L == Len(encoded.frames[1].doc_fragment)
            recovered == result.locals.total_payload_bytes
        IN  /\ Range(erase_pos) = (0..(total_qr_codes - 1)) \ keys
            /\ \A i, j \in DOMAIN erase_pos : i < j => erase_pos[i] < erase_pos[j]
            /\ \A k \in keys : Len(extracted_contents.items[k].doc_fragment) = L
            /\ result.locals.document_hash_check # -1 =>
                  /\ Len(recovered) = n_data * L
                  /\ \A k \in 0..(n_data - 1) :
                        LET chunk == SubSeq(recovered, k * L + 1, (k + 1) * L)
                        IN  /\ k \in keys
                                  => chunk = extracted_contents.items[k].doc_fragment
                            /\ (k \notin keys /\ IntactPdf)
                                  => chunk = encoded.frames[k + 1].doc_fragment

\* the codes 0 and 2 of a document with two parity frames were not read, and
\* the document was recovered
C22_Witness ==
    /\ ReconstructionStarted /\ IntactPdf
    /\ encoded.locals.num_ecc = 2
    /\ result.locals.dropped_code_inds = <<0, 2>>
    /\ result.kind = "DocumentPayload"

(***************************************************************************)
(* The state machine of the PDF: encode_qr_pdf from the rendered QR codes  *)
(* on.  Lengths are in points (inch = 72).  A rendered QR code is a square *)
(* known by the length of its side; encoded holds the codes in the order   *)
(* of _generate_qr_code_svgs (largest first), or the exception of the      *)
(* steps before the PDF.  document_content holds the caption text (<<>>    *)
(* for None, <<text>> for a text), the kind of path ("None", "str" for a   *)
(* path of the filesystem, "stream" for a file object) and the contents of *)
(* the file at the path before the call (<<>> when there is no file).      *)
(***************************************************************************)
START_X_PX == 18

START_Y_PX == 738

MAX_X_PX == 594

MIN_Y_PX == 342

QR_MARGIN_PX == 18

MAX_CHAR_LIMIT == 8640

\* the layouts are listed for at most this many QR codes
MaxQrs == 5

\* the short caption texts have at most this many characters
MaxShortText == 2

\* the escaped characters of text[lo..hi] between quotes of character quote
RECURSIVE py_repr_body(_, _, _, _)
py_repr_body(text, quote, lo, hi) ==
    LET hex(d) == IF d < 10 THEN 48 + d ELSE 87 + d
        escaped(c) ==
            IF c = 92 THEN <<92, 92>>
            ELSE IF c = quote /\ quote = 39 THEN <<92, 39>>
            ELSE IF c = 9 THEN <<92, 116>>
            ELSE IF c = 10 THEN <<92, 110>>
            ELSE IF c = 13 THEN <<92, 114>>
            ELSE IF c < 32 \/ c = 127 THEN <<92, 120, hex(c \div 16), hex(c % 16)>>
            ELSE <<c>>
    IN  IF lo > hi THEN <<>>
        ELSE IF lo = hi THEN escaped(text[lo])
        ELSE LET mid == (lo + hi) \div 2
             IN  py_repr_body(text, quote, lo, mid)
                     \o py_repr_body(text, quote, mid + 1, hi)

\* repr of a str: double quotes when the text has single quotes and no double
\* quote, single quotes otherwise
py_repr(text) ==
    LET quote == IF 39 \in Range(text) /\ 34 \notin Range(text) THEN 34 ELSE 39
    IN  <<quote>> \o py_repr_body(text, quote, 1, Len(text)) \o <<quote>>

\* s[start:stop] with the indices of Python: a negative index counts from the end
py_slice(s, start, stop) ==
    LET norm(i) == IF i < 0 THEN (IF i + Len(s) < 0 THEN 0 ELSE i + Len(s))
                   ELSE IF i > Len(s) THEN Len(s) ELSE i
    IN  SubSeq(s, norm(start) + 1, norm(stop))

\* a split whose last chunk runs to the end of the representation
split_text_to_the_end(text) ==
    LET caption_text == py_slice(py_repr(text), 1, Len(py_repr(text)))
        n_breaks == (Len(caption_text) + MAX_CHAR_LIMIT - 1) \div MAX_CHAR_LIMIT
    IN  Tup([ii \in 1..n_breaks |->
                py_slice(caption_text, (ii - 1) * MAX_CHAR_LIMIT,
                         IF ii = n_breaks THEN Len(caption_text)
                         ELSE ii * MAX_CHAR_LIMIT)])

\* _split_text_across_pages
split_text_across_pages(text) ==
    LET caption_text == py_slice(py_repr(text), 1, Len(py_repr(text)))
        n_breaks == (Len(caption_text) + MAX_CHAR_LIMIT - 1) \div MAX_CHAR_LIMIT
        breakpoints == Tup([ii \in 1..(n_breaks + 1) |->
                               IF ii <= n_breaks THEN (ii - 1) * MAX_CHAR_LIMIT
                               ELSE -1])
    IN  Tup([ii \in 1..(Len(breakpoints) - 1) |->
                py_slice(caption_text, breakpoints[ii], breakpoints[ii + 1])])

\* a lower limit that leaves no room for the caption
min_y_px_without_caption(include_text) == 54

\* the lowest point of the QR codes: above the caption, or 0.75 inch
min_y_px_of(include_text) == IF include_text THEN MIN_Y_PX ELSE 54

\* a row that must end before the right margin
enough_horizontal_space_strict(cur_x_px, qr_w_px) == cur_x_px + qr_w_px < MAX_X_PX

enough_horizontal_space(cur_x_px, qr_w_px) == cur_x_px + qr_w_px <= MAX_X_PX

\* the loop of _get_qr_positions_per_page from code ii (counted from 1) on; st
\* holds the variables of the loop
RECURSIVE get_qr_positions_from(_, _, _, _)
get_qr_positions_from(reportlab_qrs, min_y_px, ii, st) ==
    IF ii > Len(reportlab_qrs)
    THEN [st EXCEPT !.page_qrs = Append(@, <<st.qr_counter, Len(reportlab_qrs)>>)]
    ELSE LET qr_h_px == reportlab_qrs[ii]
             qr_w_px == reportlab_qrs[ii]
             wrap == ~enough_horizontal_space(st.cur_x_px, qr_w_px)
             row_y_px == st.cur_y_px - (st.last_h_px + QR_MARGIN_PX)
             new_page == wrap /\ ~(row_y_px - qr_h_px >= min_y_px)
             cur_x_px == IF wrap THEN START_X_PX ELSE st.cur_x_px
             cur_y_px == IF new_page THEN START_Y_PX
                         ELSE IF wrap THEN row_y_px ELSE st.cur_y_px
             moved == [st EXCEPT
                          !.cur_x_px = cur_x_px,
                          !.cur_y_px = cur_y_px,
                          !.page_qrs = IF new_page
                                       THEN Append(@, <<st.qr_counter, ii - 1>>)
                                       ELSE @,
                          !.qr_counter = IF new_page THEN ii - 1 ELSE @]
         IN  IF enough_horizontal_space(cur_x_px, qr_w_px)
                  /\ cur_y_px - qr_h_px >= min_y_px
             THEN get_qr_positions_from(
                      reportlab_qrs, min_y_px, ii + 1,
                      [moved EXCEPT
                          !.page_qr_positions = Append(@, <<cur_x_px, cur_y_px>>),
                          !.cur_x_px = cur_x_px + qr_w_px + QR_MARGIN_PX,
                          !.last_h_px = qr_h_px])
             ELSE [moved EXCEPT !.exc = "RuntimeError"]

\* _get_qr_positions_per_page: the page ranges and the positions (the left
\* and the top of each code), or the RuntimeError
get_qr_positions_per_page(reportlab_qrs, include_text) ==
    get_qr_positions_from(
        reportlab_qrs, min_y_px_of(include_text), 1,
        [exc |-> "None", page_qr_positions |-> <<>>, page_qrs |-> <<>>,
         cur_x_px |-> START_X_PX, cur_y_px |-> START_Y_PX, last_h_px |-> 0,
         qr_counter |-> 0])

\* a page that does not draw its first code
qr_range_after_first(qr_range) == (qr_range[1] + 1)..(qr_range[2] - 1)

\* range(qr_range[0], qr_range[1]): the codes drawn on one page
qr_range_indices(qr_range) == qr_range[1]..(qr_range[2] - 1)

\* generate_pdf_pages: the layout, the chunks of the caption and buf, the
\* pages written to the stream by c.save().  A page holds what was drawn on
\* it: for each code its index j, its left and its bottom; the caption (<<>>
\* when none was drawn); the number of characters of the overflow notice (-1
\* when none was drawn).
generate_pdf_pages(reportlab_qrs, qr_text) ==
    LET include_text == qr_text # <<>>
        layout == get_qr_positions_per_page(reportlab_qrs, include_text)
        page_qrs_ == layout.page_qrs
        page_qr_positions == layout.page_qr_positions
        page_qr_text == IF include_text THEN split_text_across_pages(qr_text[1])
                        ELSE <<>>
        captioned(page_index) == include_text /\ page_index <= Len(page_qr_text)
        page(page_index) ==
            [qrs |-> {[j |-> j,
                       x |-> page_qr_positions[j + 1][1],
                       y |-> page_qr_positions[j + 1][2] - reportlab_qrs[j + 1]] :
                          j \in qr_range_indices(page_qrs_[page_index])},
             caption |-> IF captioned(page_index) THEN <<page_qr_text[page_index]>>
                         ELSE <<>>,
             overflow |-> IF captioned(page_index)
                              /\ page_index = Len(page_qrs_)
                              /\ Len(page_qr_text) > Len(page_qrs_)
                          THEN Len(Concat(SubSeq(page_qr_text, page_index + 1,
                                                 Len(page_qr_text))))
                          ELSE -1]
    IN  IF layout.exc # "None"
        THEN [exc |-> layout.exc, msg |-> "Unable to fit QR code on page!",
              page_qrs |-> <<>>, page_qr_positions |-> <<>>,
              page_qr_text |-> <<>>, buf |-> <<>>]
        ELSE [exc |-> "None", msg |-> "",
              page_qrs |-> page_qrs_, page_qr_positions |-> page_qr_positions,
              page_qr_text |-> page_qr_text,
              buf |-> Tup([page_index \in 1..Len(page_qrs_) |-> page(page_index)])]

\* a call that returns the bytes of the PDF whatever the path
encode_qr_pdf_returns_bytes(path) == "bytes"

\* what encode_qr_pdf returns after the PDF is complete: the bytes of the PDF
\* when path is None, else None
encode_qr_pdf_returns(path) == IF path = "None" THEN "bytes" ELSE "None"

\* The calls: every list of 1..MaxQrs codes out of six sizes, largest first
\* as _generate_qr_code_svgs sorts them, without caption
\* or with a short one, with every kind of path, with and without a file at
\* the path, and the calls that fail before the PDF; and every caption text of
\* at most MaxShortText characters, and the long ones around the multiples of
\* MAX_CHAR_LIMIT, with a list of codes of one page and one of two pages.
InitPdf ==
    /\ pc = "codes"
    /\ \/ /\ document_content \in [qr_text : {<<>>, <<<<97>>>>},
                                   path : {"None", "str", "stream"},
                                   file : {<<>>, <<<<>>>>}]
          /\ encoded \in {Raise("QREncodeError")}
                            \cup {Ok(Tup(l)) :
                                     l \in {m \in UNION {[1..n -> {577, 576, 397, 396, 250, 179}] :
                                                            n \in 1..MaxQrs} :
                                               \A i \in DOMAIN m :
                                                  i > 1 => m[i - 1] >= m[i]}}
       \/ /\ document_content
                 \in [qr_text : {<<Tup(t)>> :
                                     t \in UNION {[1..n -> {0, 10, 34, 39, 92, 97}] :
                                                     n \in 0..MaxShortText}}
                                   \cup {<<Tup([i \in 1..n |-> 97])>> :
                                            n \in {MAX_CHAR_LIMIT - 1, MAX_CHAR_LIMIT,
                                                   MAX_CHAR_LIMIT + 1,
                                                   2 * MAX_CHAR_LIMIT - 1,
                                                   2 * MAX_CHAR_LIMIT,
                                                   2 * MAX_CHAR_LIMIT + 1}}
                                   \cup {<<Tup([i \in 1..MAX_CHAR_LIMIT |->
                                                   IF i < MAX_CHAR_LIMIT THEN 97 ELSE 10])>>},
                      path : {"None"}, file : {<<>>}]
          /\ encoded \in {Ok(<<179>>), Ok(<<250, 250, 250>>)}
    /\ encode_ec_codes = DEFAULT_ENCODE_EC_CODES
    /\ error_tolerance = DEFAULT_ERROR_TOLERANCE
    /\ n_raw_fragments = Big(0)
    /\ page_qrs = <<>>
    /\ passes = <<>>
    /\ extracted_contents = DictEmpty
    /\ result = [exc |-> "None", kind |-> "pending", msg |-> "",
                 page_qr_positions |-> <<>>, page_qr_text |-> <<>>,
                 buf |-> <<>>, file |-> document_content.file]

\* encode_qr_pdf up to the end of generate_pdf_pages: the exception of an
\* earlier step or of the layout propagates, else the PDF is complete in buf
EncodeQrPdf ==
    /\ pc = "codes"
    /\ IF encoded.exc # "None"
       THEN /\ result' = [result EXCEPT !.exc = encoded.exc, !.kind = "raised"]
            /\ pc' = "done"
            /\ UNCHANGED page_qrs
       ELSE LET pdf == generate_pdf_pages(encoded.val, document_content.qr_text)
            IN  IF pdf.exc # "None"
                THEN /\ result' = [result EXCEPT !.exc = pdf.exc, !.kind = "raised",
                                                 !.msg = pdf.msg]
                     /\ pc' = "done"
                     /\ UNCHANGED page_qrs
                ELSE /\ result' = [result EXCEPT
                                      !.page_qr_positions = pdf.page_qr_positions,
                                      !.page_qr_text = pdf.page_qr_text,
                                      !.buf = pdf.buf]
                     /\ page_qrs' = pdf.page_qrs
                     /\ pc' = "rendered"
    /\ UNCHANGED <<document_content, encode_ec_codes, error_tolerance,
                   n_raw_fragments, encoded, passes, extracted_contents>>

\* the end of encode_qr_pdf: buf is copied to the file at a path of the
\* filesystem, or its bytes are returned
WriteOutput ==
    /\ pc = "rendered"
    /\ result' = [result EXCEPT
                     !.kind = encode_qr_pdf_returns(document_content.path),
                     !.file = IF document_content.path = "str"
                              THEN <<result.buf>> ELSE @]
    /\ pc' = "done"
    /\ UNCHANGED <<document_content, encode_ec_codes, error_tolerance,
                   n_raw_fragments, encoded, page_qrs, passes, extracted_contents>>

SpecPdf == InitPdf /\ [][EncodeQrPdf \/ WriteOutput]_vars

\* the layout succeeded
LayoutDone == pc \in {"rendered", "done"} /\ result.exc = "None"

\* the lowest point allowed to the QR codes: 4.75 inch with a caption, 0.75
\* inch without
LowerLimit == IF document_content.qr_text # <<>> THEN 342 ELSE 54

\* C23 (layout bounds): in every successful layout each placed QR has its left
\* edge at or right of 0.25 inch (18 points), its right edge at most 8.25 inch
\* (594), its top at most 10.25 inch (738) and its bottom not lower than 4.75
\* inch (342) with a caption and 0.75 inch (54) without.
C23_LayoutBounds ==
    LayoutDone =>
        /\ Len(result.page_qr_positions) = Len(encoded.val)
        /\ \A j \in DOMAIN result.page_qr_positions :
              LET x == result.page_qr_positions[j][1]
                  y == result.page_qr_positions[j][2]
              IN  /\ x >= 18
                  /\ x + encoded.val[j] <= 594
                  /\ y <= 738
                  /\ y - encoded.val[j] >= LowerLimit

\* a layout of three pages with a caption: the first code reaches the lower
\* limit exactly
C23_Witness ==
    /\ LayoutDone /\ document_content.qr_text # <<>>
    /\ encoded.val = <<396, 250, 250, 179, 179>>
    /\ result.page_qr_positions[1][2] - 396 = 342
    /\ Len(page_qrs) = 3

\* C24 (layout failure): for QRs sorted largest first the layout raises if and
\* only if some QR does not fit on an empty page: it is wider than the usable
\* width (576 points) or taller than the usable height (738 less the lower
\* limit); otherwise every QR is placed.
C24_LayoutFailure ==
    (pc # "codes" /\ encoded.exc = "None") =>
        /\ result.exc = "RuntimeError"
              <=> \E j \in DOMAIN encoded.val :
                     encoded.val[j] > 576 \/ encoded.val[j] > 738 - LowerLimit
        /\ result.exc # "RuntimeError"
              => Len(result.page_qr_positions) = Len(encoded.val)

\* a code of 397 points fails with a caption
C24_Witness ==
    /\ pc = "done" /\ encoded.exc = "None"
    /\ encoded.val = <<397, 179>> /\ document_content.qr_text # <<>>
    /\ result.exc = "RuntimeError"

\* the codes (counted from 1) of page p of a successful layout
CodesOfPage(p) == (page_qrs[p][1] + 1)..page_qrs[p][2]

\* C27 (layout non-overlap): for square QRs sorted by size descending, any two
\* QRs placed on one page are apart by at least the margin of 0.25 inch (18
\* points) horizontally or vertically, so that no two overlap and a row that
\* follows a wrap starts below the tallest QR of the completed row.
C27_NonOverlap ==
    LayoutDone =>
        \A p \in DOMAIN page_qrs :
            \A j, k \in CodesOfPage(p) :
                LET xj == result.page_qr_positions[j][1]
                    yj == result.page_qr_positions[j][2]
                    xk == result.page_qr_positions[k][1]
                    yk == result.page_qr_positions[k][2]
                IN  j < k =>
                        \/ xj + encoded.val[j] + 18 <= xk
                        \/ xk + encoded.val[k] + 18 <= xj
                        \/ yj - encoded.val[j] - 18 >= yk
                        \/ yk - encoded.val[k] - 18 >= yj

\* C28 (page partition): on every successful layout of n >= 1 QRs the page
\* ranges are non-empty half-open intervals that partition 0..n-1 in order, one
\* position is recorded per QR, and each QR is drawn on exactly one page, once.
C28_PagePartition ==
    LayoutDone =>
        LET n == Len(encoded.val)
        IN  /\ Len(page_qrs) >= 1
            /\ page_qrs[1][1] = 0
            /\ page_qrs[Len(page_qrs)][2] = n
            /\ \A p \in DOMAIN page_qrs :
                  /\ page_qrs[p][1] < page_qrs[p][2]
                  /\ p > 1 => page_qrs[p][1] = page_qrs[p - 1][2]
            /\ Len(result.page_qr_positions) = n
            /\ Len(result.buf) = Len(page_qrs)
            /\ \A j \in 0..(n - 1) :
                  /\ Cardinality({p \in DOMAIN result.buf :
                                     \E qr \in result.buf[p].qrs : qr.j = j}) = 1
                  /\ \A p \in DOMAIN result.buf :
                        Cardinality({qr \in result.buf[p].qrs : qr.j = j}) <= 1

\* five codes on three pages: one, two and two
C28_Witness ==
    /\ LayoutDone /\ Len(encoded.val) = 5
    /\ page_qrs = <<<<0, 1>>, <<1, 3>>, <<3, 5>>>>
    /\ \E qr \in result.buf[3].qrs : qr.j = 4

\* C25 (caption splitting): the chunks of the caption text have at most 8640
\* characters each, and joined in the order of the pages they are the escaped
\* representation of the text without its quotes, no character lost or
\* repeated, at every length of the text, the multiples of 8640 included.
C25_CaptionSplitting ==
    (LayoutDone /\ document_content.qr_text # <<>>) =>
        LET text == document_content.qr_text[1]
        IN  /\ \A ii \in DOMAIN result.page_qr_text :
                  Len(result.page_qr_text[ii]) <= 8640
            /\ Concat(result.page_qr_text)
                  = SubSeq(py_repr(text), 2, Len(py_repr(text)) - 1)

\* a text whose escaped representation has 8640 characters: one full chunk and
\* an empty one
C25_Witness ==
    /\ LayoutDone /\ document_content.qr_text # <<>>
    /\ Len(document_content.qr_text[1]) = 8640
    /\ 10 \notin Range(document_content.qr_text[1])
    /\ Len(result.page_qr_text) = 2
    /\ Len(result.page_qr_text[1]) = 8640 /\ result.page_qr_text[2] = <<>>

\* an escape sequence is cut by the end of a chunk
C25_EscapeCut ==
    /\ LayoutDone /\ document_content.qr_text # <<>>
    /\ Len(result.page_qr_text) = 2
    /\ result.page_qr_text[1][8640] = 92 /\ result.page_qr_text[2] = <<110>>

\* C30 (no output on encode failure): with a path of the filesystem, when a
\* step of encode_qr_pdf raises, the call raises and the file at the path is as
\* it was before the call; the file changes only once the PDF is complete in
\* memory, to that PDF, and the call then returns None; with path None the call
\* returns the bytes of the PDF.
C30_NoOutputOnFailure ==
    /\ [][result'.file # result.file
             => /\ pc = "rendered" /\ document_content.path = "str"
                /\ result.buf # <<>> /\ result'.file = <<result.buf>>]_vars
    /\ [](pc = "done" /\ result.exc # "None"
             => /\ result.kind = "raised"
                /\ result.file = document_content.file)
    /\ [](pc = "done" /\ result.exc = "None"
             => /\ document_content.path = "str"
                      => result.kind = "None" /\ result.file = <<result.buf>>
                /\ document_content.path = "None"
                      => result.kind = "bytes" /\ result.file = document_content.file)

\* the layout failed in a call with a path of the filesystem where a file was
C30_Witness ==
    /\ pc = "done" /\ document_content.path = "str"
    /\ document_content.file = <<<<>>>>
    /\ result.exc = "RuntimeError" /\ result.file = <<<<>>>>

\* the file was written in a call with a path of the filesystem
C30_FileWritten ==
    /\ pc = "done" /\ document_content.path = "str"
    /\ result.exc = "None" /\ result.kind = "None"
    /\ result.file = <<result.buf>> /\ result.file # document_content.file

\* C29 (monotone recovery): across the raw pass and the retry passes of one
\* decode call the set of indexed sequence numbers only grows: a pass that
\* does not decode a code indexed before leaves its frame in the index, and
\* after every pass the indexed numbers are those indexed before together with
\* those of the codes decoded in the pass, so that the index given to the
\* reconstruction holds the numbers seen in all the passes that ran.
C29_MonotoneRecovery ==
    /\ [][/\ DictKeys(extracted_contents) \subseteq DictKeys(extracted_contents')
          /\ pc' # "done" =>
                \A j \in encoded'.val :
                   FrameOfCode(j).meta.sequence_number \in DictKeys(extracted_contents')
          /\ \A k \in DictKeys(extracted_contents') \ DictKeys(extracted_contents) :
                \E j \in encoded'.val : FrameOfCode(j).meta.sequence_number = k]_vars
    /\ [](\A k \in DictKeys(extracted_contents) :
             \E j \in DOMAIN page_qrs :
                /\ QRContent_model_validate_b85_bytes(page_qrs[j]).exc = "None"
                /\ FrameOfCode(j).meta.sequence_number = k)

\* the second pass decoded no code, and the frame of the raw pass is indexed
C29_Witness ==
    /\ Len(passes) = 2 /\ pc = "pdf" /\ encoded.val = {}
    /\ DictLen(extracted_contents) = 1

(***************************************************************************)
(* The state machine of the capacity: the frame of one chunk for a symbol  *)
(* of any capacity, with the QRMeta at its longest or at its shortest.     *)
(***************************************************************************)
\* the capacities go from the reserved length to this many bytes
MaxQrBytes == 260

\* the serialized MaxLenQrMeta: document_hash 2^64 - 1 as a varint of ten
\* bytes, the three counters 2^32 - 1 as varints of five bytes
MaxLenQrMeta ==
    <<8, 255, 255, 255, 255, 255, 255, 255, 255, 255, 1>>
        \o <<16, 255, 255, 255, 255, 15>>
        \o <<24, 255, 255, 255, 255, 15>>
        \o <<32, 255, 255, 255, 255, 15>>

\* document_content holds the capacity of the symbol, the serialized QRMeta
\* and the fragment, of any length up to the chunk size
InitCapacity ==
    /\ pc = "chunked"
    /\ \E max_qr_bytes \in PROTOBUF_RESERVED_LEN..MaxQrBytes :
          \E n \in 0..payload_size_of(max_qr_bytes) :
             document_content \in
                 [max_qr_bytes : {max_qr_bytes},
                  meta : {MaxLenQrMeta, QRMeta_to_proto_bytes(QRMeta(0, 0, 1, 0))},
                  doc_fragment : {Tup([i \in 1..n |-> 255])}]
    /\ encode_ec_codes = DEFAULT_ENCODE_EC_CODES
    /\ error_tolerance = DEFAULT_ERROR_TOLERANCE
    /\ n_raw_fragments = Big(0)
    /\ encoded = Raise("pending")
    /\ page_qrs = <<>>
    /\ passes = <<>>
    /\ extracted_contents = DictEmpty
    /\ result = NoResult

\* generate_qr_payloads for one chunk: the frame is serialized (the QRMeta
\* submessage, then the fragment) and encoded in base 85
FrameChunk ==
    /\ pc = "chunked"
    /\ page_qrs' = <<b85encode(<<10>> \o varint(Len(document_content.meta))
                                   \o document_content.meta
                                   \o pb_bytes_field(2, document_content.doc_fragment))>>
    /\ pc' = "framed"
    /\ UNCHANGED <<document_content, encode_ec_codes, error_tolerance,
                   n_raw_fragments, encoded, passes, extracted_contents, result>>

SpecCapacity == InitCapacity /\ [][FrameChunk]_vars

\* C26 (capacity reservation): with chunk_size = ((cap - PROTOBUF_RESERVED_LEN)
\* div 5) * 4 and PROTOBUF_RESERVED_LEN the longest QRMeta plus 4 * 10, the
\* base-85 encoding of the frame of a fragment of at most chunk_size bytes has
\* at most cap characters, whatever the values of the QRMeta up to their maxima.
C26_CapacityReservation ==
    /\ PROTOBUF_RESERVED_LEN = Len(MaxLenQrMeta) + 4 * 10
    /\ pc = "framed" =>
          /\ Len(document_content.doc_fragment)
                 <= ((document_content.max_qr_bytes - PROTOBUF_RESERVED_LEN) \div 5) * 4
          /\ Len(page_qrs[1]) <= document_content.max_qr_bytes

\* a fragment of the chunk size, long enough for a length of two bytes, with
\* the longest QRMeta
C26_Witness ==
    /\ pc = "framed" /\ document_content.meta = MaxLenQrMeta
    /\ document_content.max_qr_bytes = 240
    /\ Len(document_content.doc_fragment) = 136
    /\ Len(page_qrs[1]) = 213

====
